---- MODULE Spec2Model ----
(***************************************************************************)
(* A model of the Mixminion server core (lib/mixminion/server/ServerMain.py *)
(* and its collaborators).                                                  *)
(*                                                                          *)
(* The module holds several specifications over disjoint groups of          *)
(* variables; each leaves the other groups unchanged:                       *)
(*   Spec       the packet pipeline of one home directory: transport ->     *)
(*              incoming queue -> processing thread -> mix pool -> MIX      *)
(*              handler -> outgoing queue / module manager, with the        *)
(*              process being killed and restarted;                         *)
(*   SpecRun    the same pipeline within a single server run (no kill);     *)
(*   SpecMix    SpecRun with syncLogs() and mix() raising exceptions;       *)
(*   SpecIncoming  the incoming side of the pipeline alone, with kills;     *)
(*   SpecLock   the server processes started on one home directory and its  *)
(*              lock and pid files;                                         *)
(*   SpecDeliver  the outgoing queue's entries, their delivery by the       *)
(*              transport and their retry schedule;                         *)
(*   SpecSched  the event loop of MixminionServer.run, with FairSpecSched   *)
(*              its fair version (the main thread keeps running).           *)
(*   SpecKeys   the keystore of ServerKeyring: key generation, removal      *)
(*              of dead keys and damaged descriptors on disk;               *)
(*   SpecRotate  the keys the handlers use (updateKeys) as time passes;     *)
(*   SpecFresh  the first keys of a server started at any time of day;      *)
(*   SpecCache  the time of the next rotation the keyring caches;           *)
(*   SpecThreads  the keyring shared by two threads and its lock;           *)
(*   SpecPublish  the publication of the keystore's descriptors;            *)
(*   SpecClean  the cleaning transform of ServerInfo.py applied to a        *)
(*              string, and applied again;                                  *)
(*   SpecCodec  a descriptor signed, sent, rewritten and read back by       *)
(*              ServerInfo;                                                 *)
(*   SpecKeyset  the ServerKeyset objects: published, marked and            *)
(*              regenerated;                                                *)
(*   SpecProcessing  the processing thread and its queue of jobs;           *)
(*   SpecCleaning  the cleaning thread and its queue of file names, with    *)
(*              FairSpecCleaning its fair version.                          *)
(***************************************************************************)
EXTENDS Integers, Sequences, FiniteSets, TLC

\* ------------------------------------------------------------------ bounds
\* Number of server processes started on one home directory.
MaxServers == 3
\* Number of distinct packets the transport may deliver to this server.
MaxPackets == 2
\* How often the server process may be killed and restarted.
MaxCrashes == 1
\* How many queue file operations (messageContents, removeMessage) may fail.
MaxFaults == 1
\* MixPoolMinSize as configured (server.get("MixPoolMinSize", 5) when absent).
MixPoolMinSize == 0
\* Number of entries the outgoing queue gets.
MaxEntries == 2
\* Server/MixInterval as configured, in seconds.
MixInterval == 2
\* The interval after which the transport next times out old connections.
TransportTimeout == 3
\* The longest an event's handler runs, in seconds.
MaxHandlerTime == 2
\* The furthest the scheduler falls behind an event's time, in seconds.
MaxLate == 2

\* The keystore's clock starts at midnight of day StartDay (since the
\* epoch) and runs for MaxDays days.
StartDay == 12000
MaxDays == 22
\* How many ServerDesc files get damaged or lost.
MaxCorrupt == 1
\* The most keys asked of createKeys(num) directly.
MaxNum == 2
\* The longest string the cleaning transform is applied to.
MaxLen == 5
\* Number of jobs handed to the processing thread with addJob.
MaxJobs == 3
\* Number of deleteFile calls made on the cleaning thread.
MaxDeletes == 3
\* How often the descriptor of one KeySet is regenerated.
MaxRegen == 2

\* scheduledEvents.append( (now + 600, "SHRED") )
ShredInterval == 600
\* self.mmtpServer.process(2)
PollTimeout == 2

\* sendRate = MixPoolRate, default 0.6 = SendRateNum / SendRateDen.
SendRateNum == 3
SendRateDen == 5

Packets == 1..MaxPackets

\* The configured Server/MixAlgorithm values MixPool.__init__ accepts.
MixAlgorithms == {"TimedMixQueue", "CottrellMixQueue", "BinomialCottrellMixQueue"}

\* What PacketHandler.processMessage does with one packet: it returns None
\* (padding), a RelayedPacket or a DeliveryPacket, or raises CryptoError,
\* ParseError, ContentError, or something unexpected.
Outcomes == {"padding", "relay", "exit", "crypto", "parse", "content", "other"}

\* ---------------------------------------------------------------- variables
VARIABLES
    mixAlgorithm,  \* config['Server']['MixAlgorithm']
    received,      \* packets the transport has already delivered to us
    incoming,      \* handles present in the incoming queue (on disk)
    mqueue,        \* ProcessingThread.mqueue: the jobs, each a handle
    submitted,     \* per handle: addJob calls in this run
    procPc,        \* position of the processing thread
    procH,         \* the handle of the job being run
    procRes,       \* res in __deliverMessage
    outcome,       \* per handle: what processMessage did in this run
    done,          \* handles whose __deliverMessage returned in this run
    unwrappedAs,   \* per packet: the successful unwrap result, if any, ever
    hashLog,       \* replay log: hashes logged (journal included)
    hashSynced,    \* replay log: hashes made durable by syncLogs
    pool,          \* mix pool (on disk): per packet "none" or the object kind
    syncedSinceInsert, \* pool packets for which syncLogs ran after insertion
    poolLock,      \* owner of the mix queue's lock
    inserted,      \* per packet: MixPool.queueObject calls, ever
    insertedRun,   \* per packet: MixPool.queueObject calls in this run
    mainPc,        \* position of the main (scheduler) thread
    recvH,         \* handle being queued by queueMessage
    batch,         \* handles of getBatch() that mix() has not yet handled
    mixH,          \* h in mix()'s loop
    mixHanded,     \* whether mix() handed mixH to a downstream queue
    outgoing,      \* outgoing queue (on disk): per packet, number of entries
    sending,       \* per packet: entries handed to the transport (pending)
    modq,          \* module manager queues (on disk): per packet, entries
    modReady,      \* per packet: entries the module manager is delivering
    handedOut,     \* per packet: outgoingQueue.queueDeliveryMessage calls
    handedMod,     \* per packet: moduleManager.queueDecodedMessage calls
    skipped,       \* packets mix() removed without handing them downstream
    emitted,       \* per packet: emissions to the transport or an exit module
    crashes,       \* kills of the server process so far
    faults         \* failed queue file operations so far

pipeVars == <<mixAlgorithm, received, incoming, mqueue, submitted, procPc, procH,
              procRes, outcome, done, unwrappedAs, hashLog, hashSynced, pool,
              syncedSinceInsert, poolLock, inserted, insertedRun, mainPc, recvH,
              batch, mixH, mixHanded, outgoing, sending, modq, modReady,
              handedOut, handedMod, skipped, emitted, crashes, faults>>

\* The lock and pid files of one home directory, and the server processes
\* started on it (SpecLock).
VARIABLES
    srvPc,        \* per server process: where it is in its life
    lockName,     \* the inode Homedir/lock names; 0: no such file
    lockFD,       \* per process: the inode self.lockFD refers to; 0: none
    flockHolder,  \* per inode: the process holding its exclusive flock; 0: none
    pidFile       \* the process whose pid Homedir/pid holds; 0: no such file

lockVars == <<srvPc, lockName, lockFD, flockHolder, pidFile>>

\* The outgoing queue and the transport's deliveries (SpecDeliver).
VARIABLES
    dstate,      \* per entry: "none", "sendable", "pending" or "gone" (deleted)
    dretries,    \* per entry: its retry counter
    dwait,       \* per entry: seconds left until it is deliverable
    daddr,       \* per entry: packet.getAddress()
    inflight,    \* the sendMessages calls the transport has not yet answered
    dsince,      \* per entry: seconds since its last failure report, counted
                 \* while it waits for its next attempt
    dresults,    \* per entry: the transport's reports so far
    dresched,    \* per entry: the offsets at which it was rescheduled
    dattempts,   \* per entry: how often it was handed to the transport
    ddelivered   \* per entry: how often the transport delivered it

delivVars == <<dstate, dretries, dwait, daddr, inflight, dsince, dresults,
               dresched, dattempts, ddelivered>>

\* The event loop of MixminionServer.run (SpecSched).  Times are kept
\* relative to the present: an event's time is the seconds left until it
\* (negative when it is overdue).
VARIABLES
    schedPc,          \* where run() is
    scheduledEvents,  \* the list of (eventTime, eventName) tuples
    STOPPING,         \* the global set by _sigTermHandler
    GOT_HUP,          \* the global set by _sigHupHandler
    alive             \* per worker thread: isAlive()

schedVars == <<schedPc, scheduledEvents, STOPPING, GOT_HUP, alive>>

\* The keystore under Homedir/keys and the ServerKeyring of the process
\* working on it (SpecKeys).  Times are seconds since the epoch.
VARIABLES
    ktime,        \* time.time()
    lifetime,     \* config['Server']['PublicKeyLifetime'].getSeconds()
    keyOverlap,   \* self.keyOverlap
    keyDisk,      \* the key_NNNN directories: records name, va, vu (the
                  \* dates of ServerDesc), desc ("ok", "corrupt" or
                  \* "missing"), published (the marker file exists)
    keySets,      \* self.keySets: the list of (va, vu, keyset) tuples
    keyRange,     \* self.keyRange: (firstKey, lastKey)
    currentKeys,  \* self.currentKeys: {} for None, else {list of names}
    nextUpdate,   \* self.nextUpdate: {} for None, else {time}
    tlsContext,   \* the keyset whose context the transport holds; 0: none
    packetKeys,   \* the packet handler's keys, by keyset name
    hashLogs,     \* the packet handler's hash logs, by keyset name
    keyExc,       \* the exception the process ended with; "none": it runs
    keyOp,        \* the last keyring operation called, with its time argument
    pubLog,       \* the (name, status) publish attempts of the last
                  \* publishKeys call, and pubRet what that call returned
    pubRet,
    corrupted,    \* how many ServerDesc files were damaged so far
    hashFiles,    \* the keyset names with a hash_NNNN file under hashDir
    keyLock,      \* the thread holding self._lock; 0: none
    kthread       \* per thread calling updateKeys: where it is (pc), its
                  \* argument when and its local variable keys (with the
                  \* liveness each keyset object has read)

keyMem == <<keySets, keyRange, currentKeys, nextUpdate, tlsContext,
            packetKeys, hashLogs>>
keyVars == <<ktime, lifetime, keyOverlap, keyDisk, keyMem, keyExc, keyOp,
             pubLog, pubRet, corrupted, hashFiles, keyLock, kthread>>

\* A descriptor text on its way through the codec of ServerInfo.py
\* (SpecClean, SpecCodec).  A text is a sequence of characters; a character
\* is a record with its class c and, for a base64 value or an encoded key,
\* what it encodes.
VARIABLES
    text,              \* the string at hand
    codecOp,           \* the last codec operation applied, "none" at first
    signedDigest,      \* the digest signServerInfo computed; NoVal: none
    validatedDigests,  \* the validatedDigests argument of ServerInfo()
    isValidated,       \* self._isValidated of the ServerInfo constructed
    infoExc            \* the ConfigError the constructor raised, or "none"

codecVars == <<text, codecOp, signedDigest, validatedDigests, isValidated,
               infoExc>>

\* The two worker threads of ServerMain.py and their message queues
\* (SpecProcessing, SpecCleaning).
VARIABLES
    ptQueue,    \* ProcessingThread.mqueue: jobs, and _Shutdown instances
    ptPut,      \* everything put on ProcessingThread.mqueue, in order
    ptPc,       \* position of ProcessingThread.run
    ptJob,      \* job in ProcessingThread.run
    ptStarted,  \* the jobs run() has called, in order
    ptRan,      \* the jobs that returned, in order
    ctQueue,    \* CleaningThread.mqueue: file names, and None
    ctPut,      \* everything put on CleaningThread.mqueue, in order
    ctPc,       \* position of CleaningThread.run
    ctFn,       \* fn in CleaningThread.run
    ctHandled,  \* what run() did with each name it got, in order
    files       \* the names of the files that exist

workVars == <<ptQueue, ptPut, ptPc, ptJob, ptStarted, ptRan, ctQueue, ctPut,
              ctPc, ctFn, ctHandled, files>>

\* The ServerKeyset objects of a keyring and their files (SpecKeyset).
VARIABLES
    publishedFile,  \* per KeySet: the marker file key_NNNN/published exists
    published,      \* per KeySet: self.published of its ServerKeyset object
    descFile,       \* per KeySet: which ServerDesc is on disk (a count of
                    \* the regenerations)
    uploaded,       \* per KeySet: the descriptors uploaded to the directory
    ksetOp          \* the last operation, and the KeySet it was called on

ksetVars == <<publishedFile, published, descFile, uploaded, ksetOp>>

nonPipeVars == <<lockVars, delivVars, schedVars, keyVars,
                 codecVars, workVars, ksetVars>>
nonLockVars == <<pipeVars, delivVars, schedVars, keyVars,
                 codecVars, workVars, ksetVars>>
nonDelivVars == <<pipeVars, lockVars, schedVars, keyVars,
                  codecVars, workVars, ksetVars>>
nonSchedVars == <<pipeVars, lockVars, delivVars, keyVars,
                  codecVars, workVars, ksetVars>>
nonKeyVars == <<pipeVars, lockVars, delivVars, schedVars,
                codecVars, workVars, ksetVars>>
nonCodecVars == <<pipeVars, lockVars, delivVars, schedVars,
                  keyVars, workVars, ksetVars>>
nonWorkVars == <<pipeVars, lockVars, delivVars, schedVars,
                 keyVars, codecVars, ksetVars>>
nonKsetVars == <<pipeVars, lockVars, delivVars, schedVars,
                 keyVars, codecVars, workVars>>

vars == <<pipeVars, lockVars, delivVars, schedVars, keyVars, codecVars,
          workVars, ksetVars>>

Zero == [p \in Packets |-> 0]

\* All the orders in which the elements of S can be listed.
RECURSIVE Perms(_)
Perms(S) ==
    IF S = {} THEN {<<>>}
    ELSE UNION {{<<x>> \o s : s \in Perms(S \ {x})} : x \in S}

PoolHandles == {p \in Packets : pool[p] # "none"}

\* ------------------------------------------------- ServerQueue (batching)
\* CottrellMixQueue.getBatch: how many of n pooled messages are sent.
CottrellBatchSize(n) ==
    IF n <= MixPoolMinSize THEN 0
    ELSE ((n - MixPoolMinSize) * SendRateNum) \div SendRateDen

\* The batches getBatch() may return for pool contents S: the choice among
\* them is the queue's random draw.
getBatch(alg, S) ==
    CASE alg = "TimedMixQueue" -> {S}
      [] alg = "CottrellMixQueue" ->
            {b \in SUBSET S : Cardinality(b) = CottrellBatchSize(Cardinality(S))}
      [] OTHER ->
            IF Cardinality(S) <= MixPoolMinSize THEN {{}} ELSE SUBSET S

\* ------------------------------------------------------------------ Init
PipeInit ==
    /\ mixAlgorithm \in MixAlgorithms
    \* The spool is that of a fresh installation, except that the mix pool
    \* may hold entries in the obsolete tuple format of an earlier version.
    /\ \E old \in SUBSET Packets :
          /\ pool = [p \in Packets |-> IF p \in old THEN "obsolete" ELSE "none"]
          /\ received = old
    /\ incoming = {}
    /\ mqueue = <<>>
    /\ submitted = Zero
    /\ procPc = "idle"
    /\ procH = 0
    /\ procRes = "none"
    /\ outcome = [p \in Packets |-> "none"]
    /\ done = {}
    /\ unwrappedAs = [p \in Packets |-> "none"]
    /\ hashLog = {}
    /\ hashSynced = {}
    /\ syncedSinceInsert = {}
    /\ poolLock = "free"
    /\ inserted = Zero
    /\ insertedRun = Zero
    /\ mainPc = "wait"
    /\ recvH = 0
    /\ batch = {}
    /\ mixH = 0
    /\ mixHanded = FALSE
    /\ outgoing = Zero
    /\ sending = Zero
    /\ modq = Zero
    /\ modReady = Zero
    /\ handedOut = Zero
    /\ handedMod = Zero
    /\ skipped = {}
    /\ emitted = Zero
    /\ crashes = 0
    /\ faults = 0


\* Variable groups, for the frame conditions.
recvVars == <<received, incoming, recvH>>
jobVars == <<mqueue, submitted>>
procVars == <<procPc, procH, procRes, outcome, done, unwrappedAs>>
logVars == <<hashLog, hashSynced>>
poolVars == <<pool, syncedSinceInsert, inserted, insertedRun>>
mixVars == <<batch, mixH, mixHanded, skipped>>
downVars == <<outgoing, sending, modq, modReady, handedOut, handedMod, emitted>>
envVars == <<mixAlgorithm, crashes, faults, nonPipeVars>>

\* --------------------------------------- transport -> incoming queue (main)
\* IncomingQueue.queueMessage, first half: Queue.queueMessage stores the
\* packet under a new handle.  Called by _MMTPServer.onMessageReceived from
\* within mmtpServer.process(), i.e. while the main thread waits.
queueMessage_persist(p) ==
    /\ mainPc = "wait"
    /\ p \notin received
    /\ received' = received \cup {p}
    /\ incoming' = incoming \cup {p}
    /\ recvH' = p
    /\ mainPc' = "addJob"
    /\ UNCHANGED <<jobVars, procVars, logVars, poolVars, poolLock, mixVars,
                   downVars, envVars>>

\* IncomingQueue.queueMessage, second half: processingThread.addJob.
queueMessage_addJob ==
    /\ mainPc = "addJob"
    /\ mqueue' = Append(mqueue, recvH)
    /\ submitted' = [submitted EXCEPT ![recvH] = @ + 1]
    /\ mainPc' = "wait"
    /\ UNCHANGED <<recvVars, procVars, logVars, poolVars, poolLock, mixVars,
                   downVars, envVars>>

\* ------------------------------------------------------ processing thread
\* ProcessingThread.run: job = self.mqueue.get().
ProcGet ==
    /\ procPc = "idle"
    /\ mqueue # <<>>
    /\ procH' = Head(mqueue)
    /\ mqueue' = Tail(mqueue)
    /\ procPc' = "contents"
    /\ UNCHANGED <<recvVars, submitted, procRes, outcome, done, unwrappedAs,
                   logVars, poolVars, poolLock, mainPc, mixVars, downVars, envVars>>

\* __deliverMessage: message = self.messageContents(handle), outside the try.
\* An exception here leaves __deliverMessage and the job, and
\* ProcessingThread.run's "except:" logs it and ends the thread.
ProcContents ==
    /\ procPc = "contents"
    /\ \/ /\ procH \in incoming
          /\ procPc' = "unwrap"
          /\ UNCHANGED faults
       \/ /\ ~(procH \in incoming /\ faults >= MaxFaults)
          /\ procPc' = "dead"
          /\ faults' = IF procH \in incoming THEN faults + 1 ELSE faults
    /\ UNCHANGED <<recvVars, jobVars, procH, procRes, outcome, done, unwrappedAs,
                   logVars, poolVars, poolLock, mainPc, mixVars, downVars,
                   mixAlgorithm, crashes, nonPipeVars>>

\* (mutant) padding is treated like a relay packet.
AfterUnwrap_PaddingInserted(o) ==
    CASE o \in {"padding", "relay"} -> "insert"
      [] o = "exit" -> "decode"
      [] OTHER -> "removeExc"

\* Where __deliverMessage goes after ph.processMessage(message) ended as o.
AfterUnwrap(o) ==
    CASE o = "padding" -> "removeTry"
      [] o = "relay" -> "insert"
      [] o = "exit" -> "decode"
      [] OTHER -> "removeExc"

\* PacketHandler.processMessage: how it may end for packet h.  A packet
\* whose hash is in the replay log is refused as a replay (ContentError).
processMessage(h) == IF h \in hashLog THEN {"content"} ELSE Outcomes

\* PacketHandler.processMessage logs the hash of a packet that unwraps.
logsHash(o) == o \in {"padding", "relay", "exit"}

\* res = ph.processMessage(message)
ProcUnwrap(o) ==
    /\ procPc = "unwrap"
    /\ o \in processMessage(procH)
    /\ outcome' = [outcome EXCEPT ![procH] = o]
    /\ hashLog' = IF logsHash(o) THEN hashLog \cup {procH} ELSE hashLog
    /\ unwrappedAs' = IF o \in {"relay", "exit"}
                      THEN [unwrappedAs EXCEPT ![procH] = o] ELSE unwrappedAs
    /\ procRes' = CASE o = "relay" -> "relay"
                    [] o = "exit" -> "exitRaw"
                    [] OTHER -> "none"
    /\ procPc' = AfterUnwrap(o)
    /\ UNCHANGED <<recvVars, jobVars, procH, done, hashSynced, poolVars, poolLock,
                   mainPc, mixVars, downVars, envVars>>

\* if res.isDelivery(): res.decode()
ProcDecode ==
    /\ procPc = "decode"
    /\ procRes' = "exit"
    /\ procPc' = "insert"
    /\ UNCHANGED <<recvVars, jobVars, procH, outcome, done, unwrappedAs, logVars,
                   poolVars, poolLock, mainPc, mixVars, downVars, envVars>>

\* Queue.queueObject with no regard to the queue's lock.
queueObjectMayRun_Unlocked == TRUE

\* Queue.queueObject takes the queue's lock (the one MixPool.lock() takes),
\* so an insertion waits while the main thread holds it.
queueObjectMayRun == poolLock = "free"

\* self.mixPool.queueObject(res)
ProcInsert ==
    /\ procPc = "insert"
    /\ queueObjectMayRun
    /\ pool' = [pool EXCEPT ![procH] = procRes]
    /\ inserted' = [inserted EXCEPT ![procH] = @ + 1]
    /\ insertedRun' = [insertedRun EXCEPT ![procH] = @ + 1]
    /\ syncedSinceInsert' = syncedSinceInsert \ {procH}
    /\ procPc' = "removeTry"
    /\ UNCHANGED <<recvVars, jobVars, procH, procRes, outcome, done, unwrappedAs,
                   logVars, poolLock, mainPc, mixVars, downVars, envVars>>

\* self.removeMessage(handle) inside the try (lines 83 and 90): when it
\* raises, the bare "except:" of line 103 catches it.
ProcRemoveTry ==
    /\ procPc = "removeTry"
    /\ \/ /\ incoming' = incoming \ {procH}
          /\ done' = done \cup {procH}
          /\ procPc' = "idle"
          /\ UNCHANGED faults
       \/ /\ faults < MaxFaults
          /\ faults' = faults + 1
          /\ procPc' = "removeExc"
          /\ UNCHANGED <<incoming, done>>
    /\ UNCHANGED <<received, recvH, jobVars, procH, procRes, outcome, unwrappedAs,
                   logVars, poolVars, poolLock, mainPc, mixVars, downVars,
                   mixAlgorithm, crashes, nonPipeVars>>

\* self.removeMessage(handle) inside an except clause (lines 94, 98, 102,
\* 107): when it raises, the exception leaves the job and ends the thread.
ProcRemoveExc ==
    /\ procPc = "removeExc"
    /\ \/ /\ incoming' = incoming \ {procH}
          /\ done' = done \cup {procH}
          /\ procPc' = "idle"
          /\ UNCHANGED faults
       \/ /\ faults < MaxFaults
          /\ faults' = faults + 1
          /\ procPc' = "dead"
          /\ UNCHANGED <<incoming, done>>
    /\ UNCHANGED <<received, recvH, jobVars, procH, procRes, outcome, unwrappedAs,
                   logVars, poolVars, poolLock, mainPc, mixVars, downVars,
                   mixAlgorithm, crashes, nonPipeVars>>


\* ------------------------------------------------- the MIX event (main)
\* MixminionServer.run dispatches the MIX event (line 520).  When the event
\* is due is the scheduler's business (SpecSched); here it may come whenever
\* the main thread waits.
MixBegin ==
    /\ mainPc = "wait"
    /\ mainPc' = "lock"
    /\ UNCHANGED <<recvVars, jobVars, procVars, logVars, poolVars, poolLock,
                   mixVars, downVars, envVars>>

\* (mutant) the MIX handler goes on without taking the pool's lock.
MixLock_NotTaken ==
    /\ mainPc = "lock"
    /\ mainPc' = "sync"
    /\ UNCHANGED <<recvVars, jobVars, procVars, logVars, poolVars, poolLock,
                   mixVars, downVars, envVars>>

\* self.mixPool.lock()
MixLock ==
    /\ mainPc = "lock"
    /\ poolLock = "free"
    /\ poolLock' = "main"
    /\ mainPc' = "sync"
    /\ UNCHANGED <<recvVars, jobVars, procVars, logVars, poolVars, mixVars,
                   downVars, envVars>>

\* self.packetHandler.syncLogs()
MixSyncLogs ==
    /\ mainPc = "sync"
    /\ hashSynced' = hashLog
    /\ syncedSinceInsert' = PoolHandles
    /\ mainPc' = "mix"
    /\ UNCHANGED <<recvVars, jobVars, procVars, hashLog, pool, inserted,
                   insertedRun, poolLock, mixVars, downVars, envVars>>

\* MixPool.mix, lines 165-168: return at once on an empty pool, else
\* handles = self.queue.getBatch().
MixGetBatch ==
    /\ mainPc = "mix"
    /\ IF PoolHandles = {}
       THEN /\ mainPc' = "unlock"
            /\ UNCHANGED batch
       ELSE /\ batch' \in getBatch(mixAlgorithm, PoolHandles)
            /\ mainPc' = "loop"
    /\ UNCHANGED <<recvVars, jobVars, procVars, logVars, poolVars, poolLock,
                   mixH, mixHanded, skipped, downVars, envVars>>

\* (mutant) mix() only logs a DeliveryPacket and hands it to nobody.
MixHandOff_ExitDropped ==
    /\ mainPc = "loop"
    /\ batch # {}
    /\ \E h \in batch :
          /\ mixH' = h
          /\ mixHanded' = (pool[h] # "obsolete")
          /\ outgoing' = IF pool[h] = "relay"
                         THEN [outgoing EXCEPT ![h] = @ + 1] ELSE outgoing
          /\ handedOut' = IF pool[h] = "relay"
                          THEN [handedOut EXCEPT ![h] = @ + 1] ELSE handedOut
    /\ mainPc' = "remove"
    /\ UNCHANGED <<recvVars, jobVars, procVars, logVars, poolVars, poolLock,
                   batch, skipped, sending, modq, modReady, handedMod, emitted,
                   envVars>>

\* MixPool.mix, lines 172-184: the next handle of the batch; an entry in the
\* obsolete tuple format is skipped, a DeliveryPacket goes to the module
\* manager, anything else to the outgoing queue.
MixHandOff ==
    /\ mainPc = "loop"
    /\ batch # {}
    /\ \E h \in batch :
          /\ mixH' = h
          /\ mixHanded' = (pool[h] # "obsolete")
          /\ modq' = IF pool[h] \in {"exit", "exitRaw"}
                     THEN [modq EXCEPT ![h] = @ + 1] ELSE modq
          /\ handedMod' = IF pool[h] \in {"exit", "exitRaw"}
                          THEN [handedMod EXCEPT ![h] = @ + 1] ELSE handedMod
          /\ outgoing' = IF pool[h] = "relay"
                         THEN [outgoing EXCEPT ![h] = @ + 1] ELSE outgoing
          /\ handedOut' = IF pool[h] = "relay"
                          THEN [handedOut EXCEPT ![h] = @ + 1] ELSE handedOut
    /\ mainPc' = "remove"
    /\ UNCHANGED <<recvVars, jobVars, procVars, logVars, poolVars, poolLock,
                   batch, skipped, sending, modReady, emitted, envVars>>

\* (mutant) the whole pool is emptied once a handle has been handled.
MixRemove_ClearsPool ==
    /\ mainPc = "remove"
    /\ pool' = [p \in Packets |-> "none"]
    /\ syncedSinceInsert' = {}
    /\ skipped' = IF mixHanded THEN skipped ELSE skipped \cup {mixH}
    /\ batch' = batch \ {mixH}
    /\ mainPc' = "loop"
    /\ UNCHANGED <<recvVars, jobVars, procVars, logVars, inserted, insertedRun,
                   poolLock, mixH, mixHanded, downVars, envVars>>

\* MixPool.mix, line 185: self.queue.removeMessage(h).
MixRemove ==
    /\ mainPc = "remove"
    /\ pool' = [pool EXCEPT ![mixH] = "none"]
    /\ syncedSinceInsert' = syncedSinceInsert \ {mixH}
    /\ skipped' = IF mixHanded THEN skipped ELSE skipped \cup {mixH}
    /\ batch' = batch \ {mixH}
    /\ mainPc' = "loop"
    /\ UNCHANGED <<recvVars, jobVars, procVars, logVars, inserted, insertedRun,
                   poolLock, mixH, mixHanded, downVars, envVars>>

\* MixPool.mix returns when the loop is over.
MixDone ==
    /\ mainPc = "loop"
    /\ batch = {}
    /\ mainPc' = "unlock"
    /\ UNCHANGED <<recvVars, jobVars, procVars, logVars, poolVars, poolLock,
                   mixVars, downVars, envVars>>

\* finally: self.mixPool.unlock()
MixUnlock ==
    /\ mainPc = "unlock"
    /\ poolLock' = "free"
    /\ mainPc' = "sendOut"
    /\ UNCHANGED <<recvVars, jobVars, procVars, logVars, poolVars, mixVars,
                   downVars, envVars>>

\* An exception of syncLogs() or mix() that leaves the MIX handler with
\* the lock still held.
MixRaise_NoFinally ==
    /\ mainPc \in {"sync", "mix", "loop", "remove"}
    /\ faults < MaxFaults
    /\ faults' = faults + 1
    /\ mainPc' = "raised"
    /\ UNCHANGED <<received, incoming, recvH, jobVars, procVars, logVars,
                   poolVars, poolLock, mixVars, downVars, mixAlgorithm,
                   crashes, nonPipeVars>>

\* self.packetHandler.syncLogs() or self.mixPool.mix() raises (a log or
\* queue file operation fails), lines 524-534: control goes to the finally
\* clause.
MixRaise ==
    /\ mainPc \in {"sync", "mix", "loop", "remove"}
    /\ faults < MaxFaults
    /\ faults' = faults + 1
    /\ mainPc' = "finally"
    /\ UNCHANGED <<received, incoming, recvH, jobVars, procVars, logVars,
                   poolVars, poolLock, mixVars, downVars, mixAlgorithm,
                   crashes, nonPipeVars>>

\* finally: self.mixPool.unlock(), lines 535-536, after which the exception
\* leaves the handler and run().
MixFinally ==
    /\ mainPc = "finally"
    /\ poolLock' = "free"
    /\ mainPc' = "raised"
    /\ UNCHANGED <<recvVars, jobVars, procVars, logVars, poolVars, mixVars,
                   downVars, envVars>>

\* self.outgoingQueue.sendReadyMessages(): every entry not yet pending is
\* handed to the transport (OutgoingQueue._deliverMessages).  The retry
\* ladder of the entries is the subject of SpecDeliver.
SendOutgoing ==
    /\ mainPc = "sendOut"
    /\ sending' = outgoing
    /\ mainPc' = "sendMod"
    /\ UNCHANGED <<recvVars, jobVars, procVars, logVars, poolVars, poolLock,
                   mixVars, outgoing, modq, modReady, handedOut, handedMod,
                   emitted, envVars>>

\* self.moduleManager.sendReadyMessages()
SendModules ==
    /\ mainPc = "sendMod"
    /\ modReady' = modq
    /\ mainPc' = "wait"
    /\ UNCHANGED <<recvVars, jobVars, procVars, logVars, poolVars, poolLock,
                   mixVars, outgoing, sending, modq, handedOut, handedMod,
                   emitted, envVars>>

\* The transport sends a pending packet (within mmtpServer.process()) and
\* calls onMessageSent, i.e. outgoingQueue.deliverySucceeded(handle), which
\* deletes the entry.
TransportSent(p) ==
    /\ mainPc = "wait"
    /\ sending[p] > 0
    /\ emitted' = [emitted EXCEPT ![p] = @ + 1]
    /\ sending' = [sending EXCEPT ![p] = @ - 1]
    /\ outgoing' = [outgoing EXCEPT ![p] = @ - 1]
    /\ UNCHANGED <<recvVars, jobVars, procVars, logVars, poolVars, poolLock,
                   mainPc, mixVars, modq, modReady, handedOut, handedMod, envVars>>

\* A delivery module (on the module manager's thread) delivers a message it
\* was told to send, and removes it from its queue.
ModuleDeliver(p) ==
    /\ modReady[p] > 0
    /\ emitted' = [emitted EXCEPT ![p] = @ + 1]
    /\ modReady' = [modReady EXCEPT ![p] = @ - 1]
    /\ modq' = [modq EXCEPT ![p] = @ - 1]
    /\ UNCHANGED <<recvVars, jobVars, procVars, logVars, poolVars, poolLock,
                   mainPc, mixVars, outgoing, sending, handedOut, handedMod,
                   envVars>>

\* ------------------------------------------------------- kill and restart
\* (mutant) connectQueues forgets the handles that survived the last run.
connectQueues_NoJobs(jobs) ==
    /\ mqueue' = <<>>
    /\ submitted' = Zero

\* IncomingQueue.connectQueues, called by MixminionServer.__init__: one job
\* per handle of getAllMessages(), in the order jobs.
connectQueues(jobs) ==
    /\ mqueue' = jobs
    /\ submitted' = [p \in Packets |->
                        Cardinality({i \in 1..Len(jobs) : jobs[i] = p})]

\* The server process is killed (at any point) and started again: what is
\* on disk stays (the queues, the replay log with its journal), what is in
\* memory goes, and MixminionServer.__init__ reconnects the queues.
CrashRestart ==
    /\ crashes < MaxCrashes
    /\ crashes' = crashes + 1
    /\ \E jobs \in Perms(incoming) : connectQueues(jobs)
    /\ procPc' = "idle"
    /\ procH' = 0
    /\ procRes' = "none"
    /\ outcome' = [p \in Packets |-> "none"]
    /\ done' = {}
    /\ insertedRun' = Zero
    /\ poolLock' = "free"
    /\ mainPc' = "wait"
    /\ recvH' = 0
    /\ batch' = {}
    /\ mixH' = 0
    /\ mixHanded' = FALSE
    /\ sending' = Zero
    /\ modReady' = Zero
    /\ UNCHANGED <<received, incoming, unwrappedAs, logVars, pool,
                   syncedSinceInsert, inserted, skipped, outgoing, modq,
                   handedOut, handedMod, emitted, mixAlgorithm, faults, nonPipeVars>>

\* =================================================== lock file and pid file
Servers == 1..MaxServers
\* Inodes the lock file can have: one per open descriptor, and a fresh one.
Inodes == 1..(MaxServers + 1)

LockInit ==
    /\ srvPc = [s \in Servers |-> "off"]
    /\ lockName = 0
    /\ lockFD = [s \in Servers |-> 0]
    /\ flockHolder = [i \in Inodes |-> 0]
    /\ pidFile = 0

\* An inode neither named nor open: what O_CREAT creates the file on.
FreeInode ==
    CHOOSE i \in Inodes : i # lockName /\ \A s \in Servers : lockFD[s] # i

\* MixminionServer.__init__, line 390:
\* self.lockFD = os.open(self.lockFile, os.O_RDWR|os.O_CREAT, 0600)
OpenLockFile(s) ==
    /\ srvPc[s] = "off"
    /\ LET i == IF lockName = 0 THEN FreeInode ELSE lockName
       IN /\ lockName' = i
          /\ lockFD' = [lockFD EXCEPT ![s] = i]
    /\ srvPc' = [srvPc EXCEPT ![s] = "opened"]
    /\ UNCHANGED <<flockHolder, pidFile, nonLockVars>>

\* MixminionServer.__init__, lines 391-394:
\* fcntl.flock(self.lockFD, LOCK_EX|LOCK_NB); on IOError MixFatalError is
\* raised, runServer logs it and the process exits (its descriptor closes).
FlockLockFile(s) ==
    /\ srvPc[s] = "opened"
    /\ IF flockHolder[lockFD[s]] = 0
       THEN /\ flockHolder' = [flockHolder EXCEPT ![lockFD[s]] = s]
            /\ srvPc' = [srvPc EXCEPT ![s] = "locked"]
            /\ UNCHANGED lockFD
       ELSE /\ srvPc' = [srvPc EXCEPT ![s] = "off"]
            /\ lockFD' = [lockFD EXCEPT ![s] = 0]
            /\ UNCHANGED flockHolder
    /\ UNCHANGED <<lockName, pidFile, nonLockVars>>

\* The rest of __init__, then MixminionServer.run, lines 463-465: the pid
\* file is written and the server runs.
WritePidFile(s) ==
    /\ srvPc[s] = "locked"
    /\ pidFile' = s
    /\ srvPc' = [srvPc EXCEPT ![s] = "running"]
    /\ UNCHANGED <<lockName, lockFD, flockHolder, nonLockVars>>

\* run() returns and runServer calls server.close(); lines 561-569: the
\* threads are told to shut down and joined, the packet handler is closed.
CloseThreads(s) ==
    /\ srvPc[s] = "running"
    /\ srvPc' = [srvPc EXCEPT ![s] = "unlinkLock"]
    /\ UNCHANGED <<lockName, lockFD, flockHolder, pidFile, nonLockVars>>

\* close(), line 571: os.unlink(self.lockFile).  It removes whatever file
\* has the name; without such a file it raises OSError, and "except OSError:
\* pass" skips the rest of the try block.
CloseUnlinkLock(s) ==
    /\ srvPc[s] = "unlinkLock"
    /\ IF lockName # 0
       THEN /\ lockName' = 0
            /\ srvPc' = [srvPc EXCEPT ![s] = "unlock"]
       ELSE /\ srvPc' = [srvPc EXCEPT ![s] = "closed"]
            /\ UNCHANGED lockName
    /\ UNCHANGED <<lockFD, flockHolder, pidFile, nonLockVars>>

\* close(), line 572: fcntl.flock(self.lockFD, fcntl.LOCK_UN)
CloseUnlock(s) ==
    /\ srvPc[s] = "unlock"
    /\ flockHolder' = [i \in Inodes |->
                          IF i = lockFD[s] /\ flockHolder[i] = s
                          THEN 0 ELSE flockHolder[i]]
    /\ srvPc' = [srvPc EXCEPT ![s] = "closeFD"]
    /\ UNCHANGED <<lockName, lockFD, pidFile, nonLockVars>>

\* close(), line 573: os.close(self.lockFD)
CloseLockFD(s) ==
    /\ srvPc[s] = "closeFD"
    /\ lockFD' = [lockFD EXCEPT ![s] = 0]
    /\ srvPc' = [srvPc EXCEPT ![s] = "unlinkPid"]
    /\ UNCHANGED <<lockName, flockHolder, pidFile, nonLockVars>>

\* close(), line 574: os.unlink(self.pidFile); OSError is passed over.
CloseUnlinkPid(s) ==
    /\ srvPc[s] = "unlinkPid"
    /\ pidFile' = 0
    /\ srvPc' = [srvPc EXCEPT ![s] = "closed"]
    /\ UNCHANGED <<lockName, lockFD, flockHolder, nonLockVars>>

\* runServer: sys.exit(0) after close(); the process's descriptors are
\* closed and its locks released by the system.
ProcessExit(s) ==
    /\ srvPc[s] = "closed"
    /\ flockHolder' = [i \in Inodes |-> IF flockHolder[i] = s THEN 0 ELSE flockHolder[i]]
    /\ lockFD' = [lockFD EXCEPT ![s] = 0]
    /\ srvPc' = [srvPc EXCEPT ![s] = "off"]
    /\ UNCHANGED <<lockName, pidFile, nonLockVars>>

NextLock ==
    \E s \in Servers :
        \/ OpenLockFile(s)
        \/ FlockLockFile(s)
        \/ WritePidFile(s)
        \/ CloseThreads(s)
        \/ CloseUnlinkLock(s)
        \/ CloseUnlock(s)
        \/ CloseLockFD(s)
        \/ CloseUnlinkPid(s)
        \/ ProcessExit(s)

\* ============================== outgoing queue: delivery and retry ladder
Entries == 1..MaxEntries
Addresses == {"A", "B"}

\* OutgoingQueue.configure: self.setRetrySchedule(config['Outgoing/MMTP']
\* ['Retry']), the configured list of intervals in seconds.
RetrySchedule == <<60, 300, 3600>>

\* The steps in which time passes: short of the second interval, and as
\* long as the last one.
TickSteps == {150, 3600}

\* What the transport reports for one packet: sent, or undeliverable with
\* retriable true or false.
Results == {"sent", "retriable", "fatal"}

DelivInit ==
    /\ dstate = [h \in Entries |-> "none"]
    /\ dretries = [h \in Entries |-> 0]
    /\ dwait = [h \in Entries |-> 0]
    /\ daddr = [h \in Entries |-> "A"]
    /\ inflight = {}
    /\ dsince = [h \in Entries |-> 0]
    /\ dresults = [h \in Entries |-> <<>>]
    /\ dresched = [h \in Entries |-> <<>>]
    /\ dattempts = [h \in Entries |-> 0]
    /\ ddelivered = [h \in Entries |-> 0]

Max(a, b) == IF a >= b THEN a ELSE b
Min(a, b) == IF a <= b THEN a ELSE b

\* d seconds pass.  Times are kept relative to the present: what an entry
\* has left to wait shrinks, the time since its last failure grows.
DeliverTick(d) ==
    /\ \E h \in Entries : dwait[h] > 0
    /\ dwait' = [h \in Entries |-> Max(dwait[h] - d, 0)]
    /\ dsince' = [h \in Entries |->
                     IF dwait[h] > 0 THEN dsince[h] + Min(d, dwait[h]) ELSE dsince[h]]
    /\ UNCHANGED <<dstate, dretries, daddr, inflight, dresults, dresched,
                   dattempts, ddelivered, nonDelivVars>>

\* DeliveryQueue.queueDeliveryMessage, as MixPool.mix calls it (line 184): a
\* new entry for a packet to address a, deliverable at once, never retried.
queueDeliveryMessage(h, a) ==
    /\ dstate[h] = "none"
    /\ dstate' = [dstate EXCEPT ![h] = "sendable"]
    /\ daddr' = [daddr EXCEPT ![h] = a]
    /\ dretries' = [dretries EXCEPT ![h] = 0]
    /\ dwait' = [dwait EXCEPT ![h] = 0]
    /\ UNCHANGED <<inflight, dsince, dresults, dresched, dattempts, ddelivered,
                   nonDelivVars>>

\* OutgoingQueue._deliverMessages(msgList): the entries are grouped by
\* packet.getAddress(), and each group is one server.sendMessages call that
\* carries the group's handles.
deliverMessages(msgList) ==
    {[addr |-> a, handles |-> {h \in msgList : daddr[h] = a}] :
        a \in {daddr[h] : h \in msgList}}

\* DeliveryQueue.sendReadyMessages (called by the MIX handler, line 539):
\* every entry that is deliverable now and not pending becomes pending and
\* is passed to _deliverMessages.
sendReadyMessages ==
    LET ready == {h \in Entries : dstate[h] = "sendable" /\ dwait[h] = 0}
    IN /\ ready # {}
       /\ dstate' = [h \in Entries |-> IF h \in ready THEN "pending" ELSE dstate[h]]
       /\ dattempts' = [h \in Entries |->
                           IF h \in ready THEN dattempts[h] + 1 ELSE dattempts[h]]
       /\ inflight' = inflight \cup deliverMessages(ready)
       /\ UNCHANGED <<dretries, dwait, daddr, dsince, dresults, dresched,
                      ddelivered, nonDelivVars>>

\* DeliveryQueue.deliverySucceeded(handle): the entry is deleted.
deliverySucceeded(h) ==
    /\ dstate' = [dstate EXCEPT ![h] = "gone"]
    /\ UNCHANGED <<dretries, dwait, dresched>>

\* DeliveryQueue.deliveryFailed(handle, retriable): a retriable failure with
\* the schedule not yet exhausted reschedules the entry to now +
\* schedule[n_retries] (the schedule counted from 0); otherwise the entry is
\* deleted.
deliveryFailed(h, retriable) ==
    IF retriable /\ dretries[h] < Len(RetrySchedule)
    THEN /\ dstate' = [dstate EXCEPT ![h] = "sendable"]
         /\ dwait' = [dwait EXCEPT ![h] = RetrySchedule[dretries[h] + 1]]
         /\ dresched' = [dresched EXCEPT ![h] =
                            Append(@, RetrySchedule[dretries[h] + 1])]
         /\ dretries' = [dretries EXCEPT ![h] = @ + 1]
    ELSE /\ dstate' = [dstate EXCEPT ![h] = "gone"]
         /\ UNCHANGED <<dretries, dwait, dresched>>

\* _MMTPServer.onMessageSent(msg, handle)
onMessageSent(h) == deliverySucceeded(h)

\* (mutant) every failure is passed on as a retriable one.
onMessageUndeliverable_AlwaysRetriable(h, retriable) == deliveryFailed(h, TRUE)

\* _MMTPServer.onMessageUndeliverable(msg, handle, retriable)
onMessageUndeliverable(h, retriable) == deliveryFailed(h, retriable)

\* The transport answers for one packet of one sendMessages call, within
\* mmtpServer.process(): it calls onMessageSent or onMessageUndeliverable
\* with the handle it was given.
TransportReport(b, h, r) ==
    /\ b \in inflight
    /\ h \in b.handles
    /\ inflight' = (inflight \ {b}) \cup
                      (IF b.handles = {h} THEN {}
                       ELSE {[b EXCEPT !.handles = @ \ {h}]})
    /\ dresults' = [dresults EXCEPT ![h] = Append(@, r)]
    /\ IF r = "sent"
       THEN /\ onMessageSent(h)
            /\ ddelivered' = [ddelivered EXCEPT ![h] = @ + 1]
            /\ UNCHANGED dsince
       ELSE /\ onMessageUndeliverable(h, r = "retriable")
            /\ dsince' = [dsince EXCEPT ![h] = 0]
            /\ UNCHANGED ddelivered
    /\ UNCHANGED <<daddr, dattempts, nonDelivVars>>

\* The batches the transport can have been given.
Batches == [addr : Addresses, handles : SUBSET Entries]

NextDeliver ==
    \/ \E d \in TickSteps : DeliverTick(d)
    \/ \E h \in Entries, a \in Addresses : queueDeliveryMessage(h, a)
    \/ sendReadyMessages
    \/ \E b \in Batches, h \in Entries, r \in Results : TransportReport(b, h, r)

\* ============================================ the event loop of run()
Threads == {"cleaning", "processing", "modules"}

\* The event names, in the order Python compares the strings.
EventNames == <<"MIX", "SHRED", "TIMEOUT">>

NameRank(name) == CHOOSE i \in 1..Len(EventNames) : EventNames[i] = name

\* e < f for (eventTime, eventName) tuples, as Python compares tuples.
TupleLess(e, f) ==
    \/ e[1] < f[1]
    \/ e[1] = f[1] /\ NameRank(e[2]) < NameRank(f[2])

\* scheduledEvents.sort()
SortEvents(S) ==
    CHOOSE l \in Perms(S) :
        \A i \in 1..Len(l), j \in 1..Len(l) : i < j => ~TupleLess(l[j], l[i])

\* bisect.bisect_right(a, x, lo, hi)
RECURSIVE bisect(_, _, _, _)
bisect(a, x, lo, hi) ==
    IF lo < hi
    THEN LET mid == (lo + hi) \div 2
         IN IF TupleLess(x, a[mid + 1])
            THEN bisect(a, x, lo, mid)
            ELSE bisect(a, x, mid + 1, hi)
    ELSE lo

\* The new tuple put at the end of the list.
insort_Append(a, x) == Append(a, x)

\* bisect.insort(a, x)
insort(a, x) ==
    LET k == bisect(a, x, 0, Len(a))
    IN SubSeq(a, 1, k) \o <<x>> \o SubSeq(a, k + 1, Len(a))

\* The next mix one second early.
getNextMixTime_Early(now) == now + MixInterval - 1

\* MixPool.getNextMixTime(now): now + self.queue.getInterval()
getNextMixTime(now) == now + MixInterval

\* MMTPAsyncServer.getNextTimeoutTime(now)
getNextTimeoutTime(now) == now + TransportTimeout

\* The list of events d seconds later.
Later(events, d) == [i \in 1..Len(events) |-> <<events[i][1] - d, events[i][2]>>]

\* No event of the list is overdue by more than MaxLate.
NotTooLate(events) == \A i \in 1..Len(events) : events[i][1] >= 0 - MaxLate

SchedInit ==
    /\ schedPc = "start"
    /\ scheduledEvents = <<>>
    /\ STOPPING = 0
    /\ GOT_HUP = 0
    /\ alive = [th \in Threads |-> TRUE]

\* run(), lines 471-480: the three events are scheduled, the list is sorted.
SchedStart ==
    /\ schedPc = "start"
    /\ LET now == 0
       IN scheduledEvents' = SortEvents({<<now + ShredInterval, "SHRED">>,
                                          <<getNextTimeoutTime(now), "TIMEOUT">>,
                                          <<getNextMixTime(now), "MIX">>})
    /\ schedPc' = "top"
    /\ UNCHANGED <<STOPPING, GOT_HUP, alive, nonSchedVars>>

\* run(), lines 484-487: nextEventTime = scheduledEvents[0][0]; now =
\* time.time(); timeLeft = nextEventTime - now; the inner loop is entered
\* only while timeLeft > 0.
SchedTop ==
    /\ schedPc = "top"
    /\ LET now == 0
           timeLeft == scheduledEvents[1][1] - now
       IN schedPc' = IF timeLeft > 0 THEN "process" ELSE "dispatch"
    /\ UNCHANGED <<scheduledEvents, STOPPING, GOT_HUP, alive, nonSchedVars>>

\* run(), line 489: self.mmtpServer.process(2) returns after d seconds, at
\* most the timeout it was given.
SchedProcess(d) ==
    /\ schedPc = "process"
    /\ scheduledEvents' = Later(scheduledEvents, d)
    /\ schedPc' = "check"
    /\ UNCHANGED <<STOPPING, GOT_HUP, alive, nonSchedVars>>

\* run(), lines 490-507: STOPPING ends run(); GOT_HUP resets the logs and is
\* cleared; a worker thread that is not alive ends run(); else timeLeft is
\* computed anew.
SchedCheck ==
    /\ schedPc = "check"
    /\ IF STOPPING = 1
       THEN /\ schedPc' = "returned"
            /\ UNCHANGED GOT_HUP
       ELSE /\ GOT_HUP' = 0
            /\ IF \E th \in Threads : ~alive[th]
               THEN schedPc' = "returned"
               ELSE LET now == 0
                        timeLeft == scheduledEvents[1][1] - now
                    IN schedPc' = IF timeLeft > 0 THEN "process" ELSE "dispatch"
    /\ UNCHANGED <<scheduledEvents, STOPPING, alive, nonSchedVars>>

\* run(), lines 509-548: the head event is taken off the list and handled,
\* which takes d seconds; it is then put back at a time computed from now,
\* the time read before the handler ran.
SchedDispatch(d) ==
    /\ schedPc = "dispatch"
    /\ LET event == scheduledEvents[1][2]
           rest == Later(Tail(scheduledEvents), d)
           now == 0 - d
       IN /\ NotTooLate(rest)
          /\ scheduledEvents' =
                CASE event = "TIMEOUT" -> insort(rest, <<getNextTimeoutTime(now), "TIMEOUT">>)
                  [] event = "SHRED" -> insort(rest, <<now + ShredInterval, "SHRED">>)
                  [] event = "MIX" -> insort(rest, <<getNextMixTime(now), "MIX">>)
    /\ schedPc' = "top"
    /\ UNCHANGED <<STOPPING, GOT_HUP, alive, nonSchedVars>>

\* _sigTermHandler
SigTerm ==
    /\ schedPc # "returned"
    /\ STOPPING = 0
    /\ STOPPING' = 1
    /\ UNCHANGED <<schedPc, scheduledEvents, GOT_HUP, alive, nonSchedVars>>

\* _sigHupHandler
SigHup ==
    /\ schedPc # "returned"
    /\ GOT_HUP = 0
    /\ GOT_HUP' = 1
    /\ UNCHANGED <<schedPc, scheduledEvents, STOPPING, alive, nonSchedVars>>

\* A worker thread ends while the server runs: ProcessingThread.run and
\* CleaningThread.run return after an exception of a job.
ThreadDies(th) ==
    /\ schedPc # "returned"
    /\ alive[th]
    /\ alive' = [alive EXCEPT ![th] = FALSE]
    /\ UNCHANGED <<schedPc, scheduledEvents, STOPPING, GOT_HUP, nonSchedVars>>

\* The steps of the main thread.  process() returns at once (the network
\* has something for it) or when its timeout is over; a handler takes no
\* time to speak of, or MaxHandlerTime.
SchedStep ==
    \/ SchedStart
    \/ SchedTop
    \/ \E d \in {0, PollTimeout} : SchedProcess(d)
    \/ SchedCheck
    \/ \E d \in {0, MaxHandlerTime} : SchedDispatch(d)

NextSched ==
    \/ SchedStep
    \/ SigTerm
    \/ SigHup
    \/ \E th \in Threads : ThreadDies(th)

\* ======================================= the keystore and ServerKeyring
\* Seconds in a day.
Day == 86400
\* PUBLICATION_LATENCY = 3*24*60*60
PUBLICATION_LATENCY == 259200
\* PREPUBLICATION_INTERVAL = 14*24*60*60
PREPUBLICATION_INTERVAL == 1209600
\* sys.maxint
MaxInt == 2147483647

\* The threads that call the keyring's operations.
KeyThreads == {1, 2}

\* The configured PublicKeyLifetime values: 7 days, and 5 days 12 hours.
Lifetimes == {7 * Day, (11 * Day) \div 2}
\* The configured PublicKeyOverlap values.
Overlaps == {0, Day}
\* The steps in which the clock is observed to advance.
KeyTicks == {5 * Day, (11 * Day) \div 2}

\* Common.previousMidnight(when): the latest midnight (UTC) not after when.
previousMidnight(when) == when - (when % Day)

\* Common.formatDate(when) writes the date (UTC) of a time; here the date
\* is the number of its day.  The "date" fields of a descriptor are read
\* back as the midnight that begins the date.
formatDate(when) == when \div Day
parseDate(date) == date * Day

\* Common.ceilDiv(a, b): a / b rounded up.
ceilDiv(a, b) == IF a % b = 0 THEN a \div b ELSE (a \div b) + 1

\* The names of the key directories on disk, and the directory of a name.
KeyNames(disk) == {k.name : k \in disk}
KeyOf(disk, n) == CHOOSE k \in disk : k.name = n

\* The keysets of a list of (va, vu, keyset) tuples, by name.
NamesIn(ks) == [i \in 1..Len(ks) |-> ks[i][3]]

\* self.keySets.sort(): tuples (va, vu, keyset) in ascending order.
KeySetLess(e, f) ==
    \/ e[1] < f[1]
    \/ e[1] = f[1] /\ e[2] < f[2]
    \/ e[1] = f[1] /\ e[2] = f[2] /\ e[3] < f[3]

RECURSIVE SortKeySets(_)
SortKeySets(S) ==
    IF S = {} THEN <<>>
    ELSE LET m == CHOOSE e \in S : \A f \in S : f = e \/ KeySetLess(e, f)
         IN <<m>> \o SortKeySets(S \ {m})

\* checkKeys(), lines 117-158, of a keystore whose descriptors can all be
\* read: every key_INT directory with the liveness of its ServerDesc,
\* sorted, and the range of the numbers found.
ScanKeySets(disk) == SortKeySets({<<k.va, k.vu, k.name>> : k \in disk})
ScanKeyRange(disk) ==
    <<IF disk = {} THEN MaxInt
      ELSE CHOOSE n \in KeyNames(disk) : \A m \in KeyNames(disk) : n <= m,
      IF disk = {} THEN 0
      ELSE CHOOSE n \in KeyNames(disk) : \A m \in KeyNames(disk) : n >= m>>

\* checkKeys() line 150: keyset.getLiveness() parses ServerDesc
\* (ServerKeyset.getServerDescriptor, ServerInfo(fname=...)) outside any try
\* statement; a missing file (IOError) or an unparsable one (ConfigError)
\* raises out of checkKeys: "DescriptorError" below.
ScanRaises(disk) == \E k \in disk : k.desc # "ok"

\* The keyring and the handlers of a process that is not there.
NoKeyMem ==
    /\ keySets' = <<>>
    /\ keyRange' = <<MaxInt, 0>>
    /\ currentKeys' = {}
    /\ nextUpdate' = {}
    /\ tlsContext' = 0
    /\ packetKeys' = <<>>
    /\ hashLogs' = <<>>

\* An exception leaves the keyring operation and nothing in ServerMain.py
\* catches it: the process ends, and its keyring with it.
KeyRaise(exc) ==
    /\ keyExc' = exc
    /\ NoKeyMem

KeyInit ==
    /\ ktime = StartDay * Day
    /\ lifetime \in Lifetimes
    /\ keyOverlap \in Overlaps
    /\ keyDisk = {}
    /\ keySets = <<>>
    /\ keyRange = <<MaxInt, 0>>
    /\ currentKeys = {}
    /\ nextUpdate = {}
    /\ tlsContext = 0
    /\ packetKeys = <<>>
    /\ hashLogs = <<>>
    /\ keyExc = "none"
    /\ keyOp = [op |-> "configure", now |-> StartDay * Day]
    /\ pubLog = <<>>
    /\ pubRet = "None"
    /\ corrupted = 0
    /\ hashFiles = {}
    /\ keyLock = 0
    /\ kthread = [t \in KeyThreads |-> [pc |-> "idle", when |-> 0, keys |-> <<>>]]

\* The keystore of the specifications that do not look at it.
KeyIdle ==
    /\ KeyInit
    /\ lifetime = 7 * Day
    /\ keyOverlap = 0

\* Time passes.
KeyTick(d) ==
    /\ ktime + d <= (StartDay + MaxDays) * Day
    /\ ktime' = ktime + d
    /\ keyOp' = [op |-> "none", now |-> ktime + d]
    /\ UNCHANGED <<lifetime, keyOverlap, keyDisk, keyMem, keyExc,
                   pubLog, pubRet, corrupted, hashFiles, keyLock, kthread,
                   nonKeyVars>>

\* A ServerDesc file is damaged, or lost.
CorruptDescriptor(n, how) ==
    /\ corrupted < MaxCorrupt
    /\ n \in KeyNames(keyDisk)
    /\ KeyOf(keyDisk, n).desc = "ok"
    /\ keyDisk' = (keyDisk \ {KeyOf(keyDisk, n)})
                     \cup {[KeyOf(keyDisk, n) EXCEPT !.desc = how]}
    /\ corrupted' = corrupted + 1
    /\ UNCHANGED <<ktime, lifetime, keyOverlap, keyMem, keyExc, keyOp,
                   pubLog, pubRet, hashFiles, keyLock, kthread,
                   nonKeyVars>>

\* ServerKeyring.__init__ / configure in a new process, lines 98-112:
\* nextUpdate and currentKeys are None and the keystore is scanned.
configure ==
    /\ keyExc # "none"
    /\ keyOp' = [op |-> "configure", now |-> ktime]
    /\ IF ScanRaises(keyDisk)
       THEN KeyRaise("DescriptorError")
       ELSE /\ keyExc' = "none"
            /\ keySets' = ScanKeySets(keyDisk)
            /\ keyRange' = ScanKeyRange(keyDisk)
            /\ currentKeys' = {}
            /\ nextUpdate' = {}
            /\ tlsContext' = 0
            /\ packetKeys' = <<>>
            /\ hashLogs' = <<>>
    /\ UNCHANGED <<ktime, lifetime, keyOverlap, keyDisk, pubLog, pubRet,
                   corrupted, hashFiles, keyLock, kthread,
                   nonKeyVars>>

\* checkKeys(), lines 114-170, as the last call of an operation that left
\* the keystore as disk: the scan raises, or self.keySets and self.keyRange
\* are what it found (lines 162-170 only log warnings).
checkKeys(disk) ==
    IF ScanRaises(disk)
    THEN KeyRaise("DescriptorError")
    ELSE /\ keyExc' = "none"
         /\ keySets' = ScanKeySets(disk)
         /\ keyRange' = ScanKeyRange(disk)
         /\ UNCHANGED <<currentKeys, nextUpdate, tlsContext, packetKeys,
                        hashLogs>>

\* Line 721.
CERTIFICATE_EXPIRY_SLOPPINESS == 300

\* generateServerDescriptorAndKeys with certificates for the descriptor's
\* very days.
generateServerDescriptorAndKeys_NoSloppiness(keyname, validAt) ==
    LET start == previousMidnight(validAt + 30)
        validUntil == start + lifetime
    IN [name |-> keyname,
        va |-> parseDate(formatDate(start)),
        vu |-> parseDate(formatDate(validUntil)),
        certStarts |-> parseDate(formatDate(start)),
        certEnds |-> parseDate(formatDate(validUntil)),
        desc |-> "ok",
        published |-> FALSE]

\* generateServerDescriptorAndKeys, lines 781-789 and 811-812: the key
\* directory written for keyname, valid from validAt: the dates of its
\* descriptor and the times generateCertChain is given for the
\* certificates.
generateServerDescriptorAndKeys(keyname, validAt) ==
    LET start == previousMidnight(validAt + 30)
        validUntil == start + lifetime
    IN [name |-> keyname,
        va |-> parseDate(formatDate(start)),
        vu |-> parseDate(formatDate(validUntil)),
        certStarts |-> start - CERTIFICATE_EXPIRY_SLOPPINESS,
        certEnds |-> validUntil + CERTIFICATE_EXPIRY_SLOPPINESS,
        desc |-> "ok",
        published |-> FALSE]

\* (mutant) a window that begins at 1 is not extended: the key is named
\* lastKey.
RECURSIVE createKeysLoop_ReuseLast(_, _, _, _, _)
createKeysLoop_ReuseLast(num, startAt, firstKey, lastKey, disk) ==
    IF num <= 0 THEN disk
    ELSE LET keynum == IF firstKey = MaxInt THEN 1
                       ELSE IF firstKey > 1 THEN firstKey - 1
                       ELSE lastKey
             first2 == IF firstKey = MaxInt THEN 1
                       ELSE IF firstKey > 1 THEN firstKey - 1
                       ELSE firstKey
             last2 == IF firstKey = MaxInt THEN 1 ELSE lastKey
         IN createKeysLoop_ReuseLast(num - 1, startAt + lifetime, first2, last2,
                {k \in disk : k.name # keynum}
                   \cup {generateServerDescriptorAndKeys(keynum, startAt)})

\* createKeys, lines 276-301: the loop generating num keys, the first one
\* valid from startAt; the keystore it leaves.
RECURSIVE createKeysLoop(_, _, _, _, _)
createKeysLoop(num, startAt, firstKey, lastKey, disk) ==
    IF num <= 0 THEN disk
    ELSE LET keynum == IF firstKey = MaxInt THEN 1
                       ELSE IF firstKey > 1 THEN firstKey - 1
                       ELSE lastKey + 1
             first2 == IF firstKey = MaxInt THEN 1
                       ELSE IF firstKey > 1 THEN firstKey - 1
                       ELSE firstKey
             last2 == IF firstKey = MaxInt THEN 1
                      ELSE IF firstKey > 1 THEN lastKey
                      ELSE lastKey + 1
             nextStart == startAt + lifetime
         IN createKeysLoop(num - 1, nextStart, first2, last2,
                {k \in disk : k.name # keynum}
                   \cup {generateServerDescriptorAndKeys(keynum, startAt)})

\* createKeys(num), lines 260-303, with startAt None.
createKeysDisk(num) ==
    LET startAt == IF keySets # <<>>
                   THEN keySets[Len(keySets)][2] + 60
                   ELSE ktime + 60
    IN createKeysLoop(num, previousMidnight(startAt), keyRange[1],
                      keyRange[2], keyDisk)

\* The most key directories there are when createKeys is called directly.
MaxKeys == 4

createKeys(num) ==
    /\ keyExc = "none"
    /\ Cardinality(keyDisk) + num <= MaxKeys
    /\ keyOp' = [op |-> "createKeys", now |-> ktime]
    /\ keyDisk' = createKeysDisk(num)
    /\ checkKeys(createKeysDisk(num))
    /\ UNCHANGED <<ktime, lifetime, keyOverlap, pubLog, pubRet, corrupted,
                   hashFiles, keyLock, kthread,
                   nonKeyVars>>

\* getNextKeygen(), lines 305-323.
getNextKeygen ==
    IF keySets = <<>> THEN -1
    ELSE keySets[Len(keySets)][2] - PUBLICATION_LATENCY

\* createKeysAsNeeded(now), lines 239-258: how many keys it asks of
\* createKeys; 0 when it returns at line 245.
nKeysNeeded(now) ==
    IF getNextKeygen > now - 10 THEN 0
    ELSE LET lastExpiry == IF keySets # <<>>
                           THEN keySets[Len(keySets)][2] ELSE now
             timeToCover == lastExpiry + PREPUBLICATION_INTERVAL - now
         IN ceilDiv(timeToCover, lifetime)

createKeysAsNeeded(now) ==
    /\ keyExc = "none"
    /\ keyOp' = [op |-> "createKeysAsNeeded", now |-> now]
    /\ IF getNextKeygen > now - 10
       THEN UNCHANGED <<keyDisk, keyMem, keyExc>>
       ELSE /\ keyDisk' = createKeysDisk(nKeysNeeded(now))
            /\ checkKeys(createKeysDisk(nKeysNeeded(now)))
    /\ UNCHANGED <<ktime, lifetime, keyOverlap, pubLog, pubRet, corrupted,
                   hashFiles, keyLock, kthread,
                   nonKeyVars>>

\* removeDeadKeys deleting the keysets past their Valid-Until.
DeadKeys_NoOverlap(ks, now) ==
    {ks[i][3] : i \in {j \in 1..Len(ks) : ~(ks[j][2] >= now)}}

\* removeDeadKeys, lines 335-350: the names of the keysets it deletes.
DeadKeys(ks, now) ==
    {ks[i][3] : i \in {j \in 1..Len(ks) : ~(ks[j][2] >= now - keyOverlap)}}

\* removeDeadKeys(now), lines 325-352; without an argument now is
\* time.time().
removeDeadKeys(now) ==
    /\ keyExc = "none"
    /\ keyOp' = [op |-> "removeDeadKeys", now |-> now]
    /\ IF ScanRaises(keyDisk)
       THEN /\ KeyRaise("DescriptorError")
            /\ UNCHANGED <<keyDisk, hashFiles>>
       ELSE LET dead == DeadKeys(ScanKeySets(keyDisk), now)
                disk == {k \in keyDisk : k.name \notin dead}
            IN /\ keyDisk' = disk
               /\ hashFiles' = hashFiles \ dead
               /\ checkKeys(disk)
    /\ UNCHANGED <<ktime, lifetime, keyOverlap, pubLog, pubRet, corrupted,
                   keyLock, kthread,
                   nonKeyVars>>

\* _getLiveKeys as the keys valid at now: Valid-After <= now <= Valid-Until.
getLiveKeys_Closed(ks, now) ==
    SelectSeq(ks, LAMBDA e : e[1] <= now /\ now <= e[2])

\* _getLiveKeys(now), lines 354-368.
getLiveKeys(ks, now) ==
    SelectSeq(ks, LAMBDA e : e[1] < now /\ e[2] > now - keyOverlap)

\* getServerKeysets(now), lines 370-381: the live keysets, by name.
getServerKeysets(ks, now) ==
    [i \in 1..Len(getLiveKeys(ks, now)) |-> getLiveKeys(ks, now)[i][3]]

\* (mutant) the next rotation is the first remove event, whatever the add
\* events are.
getNextKeyRotation_RemoveOnly(disk, keys) ==
    LET rmKeyEvents == {KeyOf(disk, keys[i]).vu + keyOverlap :
                           i \in 1..Len(keys)}
    IN CHOOSE t \in rmKeyEvents : \A u \in rmKeyEvents : t <= u

\* getNextKeyRotation(keys), lines 431-456, filling the cache: the least
\* of the add events (Valid-Until) if it is before the least of the remove
\* events (Valid-Until + overlap), else the latter.  keys is not empty.
getNextKeyRotation(disk, keys) ==
    LET addKeyEvents == {KeyOf(disk, keys[i]).vu : i \in 1..Len(keys)}
        rmKeyEvents == {KeyOf(disk, keys[i]).vu + keyOverlap :
                           i \in 1..Len(keys)}
        add == CHOOSE t \in addKeyEvents : \A u \in addKeyEvents : t <= u
        rm == CHOOSE t \in rmKeyEvents : \A u \in rmKeyEvents : t <= u
    IN IF add < rm THEN add ELSE rm

\* updateKeys(packetHandler, mmtpServer, when), lines 410-429.
\* removeDeadKeys() is called without an argument; keys[-1] raises
\* IndexError and min([]) raises ValueError when keys is empty.
updateKeys(packetHandler, mmtpServer, when) ==
    /\ keyExc = "none"
    /\ keyOp' = [op |-> "updateKeys", now |-> when]
    /\ IF ScanRaises(keyDisk)
       THEN /\ KeyRaise("DescriptorError")
            /\ UNCHANGED <<keyDisk, hashFiles>>
       ELSE LET dead == DeadKeys(ScanKeySets(keyDisk), ktime)
                disk == {k \in keyDisk : k.name \notin dead}
                keys == getServerKeysets(ScanKeySets(disk), when)
            IN /\ keyDisk' = disk
               /\ IF keys = <<>>
                  THEN /\ KeyRaise(IF mmtpServer THEN "IndexError"
                                   ELSE "ValueError")
                       /\ hashFiles' = hashFiles \ dead
                  ELSE /\ keyExc' = "none"
                       /\ keySets' = ScanKeySets(disk)
                       /\ keyRange' = ScanKeyRange(disk)
                       /\ currentKeys' = {keys}
                       /\ tlsContext' = IF mmtpServer THEN keys[Len(keys)]
                                        ELSE tlsContext
                       /\ packetKeys' = IF packetHandler THEN keys
                                        ELSE packetKeys
                       /\ hashLogs' = IF packetHandler THEN keys
                                      ELSE hashLogs
                       /\ hashFiles' = (hashFiles \ dead) \cup
                             (IF packetHandler
                              THEN {keys[i] : i \in 1..Len(keys)} ELSE {})
                       /\ nextUpdate' = {getNextKeyRotation(disk, keys)}
    /\ UNCHANGED <<ktime, lifetime, keyOverlap, pubLog, pubRet, corrupted,
                   keyLock, kthread,
                   nonKeyVars>>

\* getNextKeyRotation() called by the server, lines 431-456: the cached
\* self.nextUpdate if there is one; else the value is computed from
\* self.currentKeys, or from getServerKeysets() when that is None, and
\* cached (min([]) raises ValueError when there is no live key).
callGetNextKeyRotation ==
    /\ keyExc = "none"
    /\ LET keys == IF currentKeys = {}
                   THEN getServerKeysets(keySets, ktime)
                   ELSE CHOOSE k \in currentKeys : TRUE
           ret == IF nextUpdate # {} THEN CHOOSE t \in nextUpdate : TRUE
                  ELSE getNextKeyRotation(keyDisk, keys)
       IN IF nextUpdate = {} /\ keys = <<>>
          THEN /\ KeyRaise("ValueError")
               /\ keyOp' = [op |-> "getNextKeyRotation", now |-> ktime]
          ELSE /\ keyOp' = [op |-> "getNextKeyRotation", now |-> ktime,
                            ret |-> ret]
               /\ nextUpdate' = {ret}
               /\ UNCHANGED <<keySets, keyRange, currentKeys, tlsContext,
                              packetKeys, hashLogs, keyExc>>
    /\ UNCHANGED <<ktime, lifetime, keyOverlap, keyDisk, pubLog, pubRet,
                   corrupted, hashFiles, keyLock, kthread, nonKeyVars>>

\* publishKeys, lines 196-201: the keysets it goes through, by name.
publishBatch(allKeys) ==
    LET idx == {i \in 1..Len(keySets) :
                   allKeys \/ ~KeyOf(keyDisk, keySets[i][3]).published}
        names == [i \in 1..Len(keySets) |-> keySets[i][3]]
    IN SelectSeq(names, LAMBDA n : \E i \in idx : keySets[i][3] = n)

\* publishKeys, lines 206-214, with ServerKeyset.publish, lines 583-621:
\* the (name, status) attempts of the loop over batch, the directory
\* answering answer[name].  Opening a ServerDesc that is not there raises
\* IOError (line 586); status 'error' ends the loop (line 210).
\* publishKeys going on to the next keyset after an 'error'.
RECURSIVE publishLoop_NoAbort(_, _)
publishLoop_NoAbort(pbatch, answer) ==
    IF pbatch = <<>> THEN <<>>
    ELSE <<<<Head(pbatch), answer[Head(pbatch)]>>>>
            \o publishLoop_NoAbort(Tail(pbatch), answer)

RECURSIVE publishLoop(_, _)
publishLoop(pbatch, answer) ==
    IF pbatch = <<>> THEN <<>>
    ELSE LET n == Head(pbatch)
             status == IF KeyOf(keyDisk, n).desc = "missing" THEN "IOError"
                       ELSE answer[n]
         IN IF status \in {"error", "IOError"}
            THEN <<<<n, status>>>>
            ELSE <<<<n, status>>>> \o publishLoop(Tail(pbatch), answer)

StatusesOf(log) == {log[i][2] : i \in 1..Len(log)}
NamesWith(log, status) == {log[i][1] : i \in {j \in 1..Len(log) : log[j][2] = status}}

\* The marker file written for every keyset, whatever the answer.
markAsPublished_AnyAnswer(disk, names) ==
    {[k EXCEPT !.published = TRUE] : k \in disk}

\* ServerKeyset.publish, lines 619-621, and markAsPublished, lines 554-562:
\* the marker file is written when the directory accepted.
markAsPublished(disk, names) ==
    {IF k.name \in names THEN [k EXCEPT !.published = TRUE] ELSE k :
        k \in disk}

\* publishKeys(allKeys), lines 194-221.
publishKeys(allKeys, answer) ==
    /\ keyExc = "none"
    /\ keyOp' = [op |-> "publishKeys", now |-> ktime]
    /\ LET pbatch == publishBatch(allKeys)
           log == publishLoop(pbatch, answer)
       IN /\ pubLog' = log
          /\ keyDisk' = markAsPublished(keyDisk, NamesWith(log, "accept"))
          /\ IF "IOError" \in StatusesOf(log)
             THEN /\ KeyRaise("IOError")
                  /\ pubRet' = "raised"
             ELSE /\ pubRet' = IF ~allKeys /\ pbatch = <<>> THEN "None"
                               ELSE IF "error" \in StatusesOf(log) THEN "0"
                               ELSE IF "reject" \in StatusesOf(log) THEN "0"
                               ELSE "1"
                  /\ UNCHANGED <<keyMem, keyExc>>
    /\ UNCHANGED <<ktime, lifetime, keyOverlap, corrupted, hashFiles,
                   keyLock, kthread,
                   nonKeyVars>>

\* ------------------------------- updateKeys called by concurrent threads
\* What a step of a thread inside updateKeys leaves alone.
threadFrame == <<ktime, lifetime, keyOverlap, keyOp, pubLog, pubRet,
                 corrupted, keyLock, nonKeyVars>>

AtPc(t, pc) == keyExc = "none" /\ kthread[t].pc = pc
GoTo(t, pc) == kthread' = [kthread EXCEPT ![t].pc = pc]
\* The call returns (or raises): its arguments and local variables are gone.
Return(t) ==
    kthread' = [kthread EXCEPT ![t] = [pc |-> "idle", when |-> 0,
                                       keys |-> <<>>]]

\* lock(), lines 466-467: self._lock.acquire(); the caller waits while
\* another thread holds the lock.
lock(t) ==
    /\ AtPc(t, "idle")
    /\ keyLock = 0
    /\ keyLock' = t
    /\ UNCHANGED <<ktime, lifetime, keyOverlap, keyDisk, keyMem, keyExc,
                   keyOp, pubLog, pubRet, corrupted, hashFiles, kthread,
                   nonKeyVars>>

\* unlock(), lines 469-470: self._lock.release()
unlock(t) ==
    /\ AtPc(t, "idle")
    /\ keyLock = t
    /\ keyLock' = 0
    /\ UNCHANGED <<ktime, lifetime, keyOverlap, keyDisk, keyMem, keyExc,
                   keyOp, pubLog, pubRet, corrupted, hashFiles, kthread,
                   nonKeyVars>>

\* updateKeys(packetHandler, mmtpServer, when) is entered, line 412:
\* removeDeadKeys() calls checkKeys(), whose first statement (line 117) is
\* self.keySets = [].  No statement of either method acquires self._lock.
updateKeys_enter(t, when) ==
    /\ AtPc(t, "idle")
    /\ kthread' = [kthread EXCEPT ![t] = [pc |-> "scan", when |-> when,
                                          keys |-> <<>>]]
    /\ keySets' = <<>>
    /\ UNCHANGED <<keyDisk, keyRange, currentKeys, nextUpdate, tlsContext,
                   packetKeys, hashLogs, keyExc, hashFiles, threadFrame>>

\* checkKeys, lines 128-158, fills self.keySets; removeDeadKeys, lines
\* 335-350, deletes the dead keysets of self.keySets and calls checkKeys
\* again (line 352), which empties self.keySets.
updateKeys_remove(t) ==
    /\ AtPc(t, "scan")
    /\ LET dead == DeadKeys(ScanKeySets(keyDisk), ktime)
       IN /\ keyDisk' = {k \in keyDisk : k.name \notin dead}
          /\ hashFiles' = hashFiles \ dead
    /\ keySets' = <<>>
    /\ keyRange' = ScanKeyRange(keyDisk)
    /\ GoTo(t, "rescan")
    /\ UNCHANGED <<currentKeys, nextUpdate, tlsContext, packetKeys,
                   hashLogs, keyExc, threadFrame>>

\* The second checkKeys of removeDeadKeys, lines 128-158.
updateKeys_rescan(t) ==
    /\ AtPc(t, "rescan")
    /\ keySets' = ScanKeySets(keyDisk)
    /\ keyRange' = ScanKeyRange(keyDisk)
    /\ GoTo(t, "live")
    /\ UNCHANGED <<keyDisk, currentKeys, nextUpdate, tlsContext, packetKeys,
                   hashLogs, keyExc, hashFiles, threadFrame>>

\* updateKeys, line 413: self.currentKeys = keys =
\* self.getServerKeysets(when), computed from self.keySets as it is.
updateKeys_live(t) ==
    /\ AtPc(t, "live")
    /\ currentKeys' = {getServerKeysets(keySets, kthread[t].when)}
    /\ kthread' = [kthread EXCEPT
                      ![t].pc = "handlers",
                      ![t].keys = getLiveKeys(keySets, kthread[t].when)]
    /\ UNCHANGED <<keyDisk, keySets, keyRange, nextUpdate, tlsContext,
                   packetKeys, hashLogs, keyExc, hashFiles, threadFrame>>

\* updateKeys, lines 415-426: keys[-1] raises IndexError when keys is
\* empty (the thread's call ends with it); else the transport gets the
\* context of keys[-1] and the packet handler the keys and hash logs.
updateKeys_handlers(t) ==
    /\ AtPc(t, "handlers")
    /\ LET keys == NamesIn(kthread[t].keys)
       IN IF keys = <<>>
          THEN /\ keyExc' = "IndexError"
               /\ Return(t)
               /\ UNCHANGED <<tlsContext, packetKeys, hashLogs, hashFiles>>
          ELSE /\ tlsContext' = keys[Len(keys)]
               /\ packetKeys' = keys
               /\ hashLogs' = keys
               /\ hashFiles' = hashFiles \cup {keys[i] : i \in 1..Len(keys)}
               /\ GoTo(t, "clear")
               /\ UNCHANGED keyExc
    /\ UNCHANGED <<keyDisk, keySets, keyRange, currentKeys, nextUpdate,
                   threadFrame>>

\* updateKeys, line 428: self.nextUpdate = None
updateKeys_clear(t) ==
    /\ AtPc(t, "clear")
    /\ nextUpdate' = {}
    /\ GoTo(t, "fill")
    /\ UNCHANGED <<keyDisk, keySets, keyRange, currentKeys, tlsContext,
                   packetKeys, hashLogs, keyExc, hashFiles, threadFrame>>

\* updateKeys, line 429: getNextKeyRotation(keys), lines 431-456, fills
\* self.nextUpdate if it is None; ServerKeyset.getLiveness() answers from
\* what the keyset object read when it was scanned.
updateKeys_fill(t) ==
    /\ AtPc(t, "fill")
    /\ nextUpdate' = IF nextUpdate = {}
                     THEN {getNextKeyRotation(
                              {[name |-> kthread[t].keys[i][3],
                                vu |-> kthread[t].keys[i][2]] :
                                  i \in 1..Len(kthread[t].keys)},
                              NamesIn(kthread[t].keys))}
                     ELSE nextUpdate
    /\ Return(t)
    /\ UNCHANGED <<keyDisk, keySets, keyRange, currentKeys, tlsContext,
                   packetKeys, hashLogs, keyExc, hashFiles, threadFrame>>

\* The times passed to removeDeadKeys and to updateKeys: the present, or a
\* time ahead of it.
NowArgs == {ktime, ktime + 30 * Day}
WhenArgs == {ktime, ktime + 4 * Day}
\* The times the threads pass to updateKeys: in the first key's validity,
\* and in a later key's.
ThreadWhenArgs == {ktime + 4 * Day, ktime + 8 * Day}

\* Keys are generated and removed as time passes.
NextKeys ==
    \/ \E d \in KeyTicks : KeyTick(d)
    \/ \E n \in KeyNames(keyDisk), how \in {"corrupt", "missing"} :
          CorruptDescriptor(n, how)
    \/ configure
    \/ \E num \in 1..MaxNum : createKeys(num)
    \/ createKeysAsNeeded(ktime)
    \/ \E now \in NowArgs : removeDeadKeys(now)

\* Keys are generated as time passes, and the server's handlers are given
\* the live ones: with a transport (and a packet handler or none), or with
\* a packet handler alone.
NextRotate ==
    \/ \E d \in KeyTicks : KeyTick(d)
    \/ createKeysAsNeeded(ktime)
    \/ \E now \in NowArgs : removeDeadKeys(now)
    \/ \E ms \in BOOLEAN, when \in WhenArgs : updateKeys(TRUE, ms, when)

\* How long after midnight a server is started on an empty keystore.
StartOffsets == {1, Day \div 2, Day - 61, Day - 60, Day - 1}

\* A server started at some time of day generates its first keys with
\* createKeys and gives its handlers the live ones at that time.
NextFresh ==
    \/ /\ keyDisk = {}
       /\ ktime = StartDay * Day
       /\ \E d \in StartOffsets : KeyTick(d)
    \/ \E num \in 1..MaxNum : createKeys(num)
    \/ \E now \in NowArgs : removeDeadKeys(now)
    \/ \E ms \in BOOLEAN : updateKeys(TRUE, ms, ktime)

\* Keys are generated and removed as time passes, the handlers are given
\* the live ones, and the server asks when to rotate next.
NextCache ==
    \/ \E d \in KeyTicks : KeyTick(d)
    \/ createKeysAsNeeded(ktime)
    \/ \E now \in NowArgs : removeDeadKeys(now)
    \/ \E when \in WhenArgs : updateKeys(TRUE, TRUE, when)
    \/ callGetNextKeyRotation

\* Keys are generated, and two threads call lock(), unlock() and
\* updateKeys as they like.
NextThreads ==
    \/ (\A t \in KeyThreads : kthread[t].pc = "idle")
          /\ createKeysAsNeeded(ktime)
    \/ \E t \in KeyThreads :
          \/ lock(t)
          \/ unlock(t)
          \/ \E when \in ThreadWhenArgs : updateKeys_enter(t, when)
          \/ updateKeys_remove(t)
          \/ updateKeys_rescan(t)
          \/ updateKeys_live(t)
          \/ updateKeys_handlers(t)
          \/ updateKeys_clear(t)
          \/ updateKeys_fill(t)

\* Keys are generated and published to the directory, which answers as
\* it likes.
NextPublish ==
    \/ \E num \in 1..MaxNum : createKeys(num)
    \/ createKeysAsNeeded(ktime)
    \/ \E allKeys \in BOOLEAN :
          \E answer \in [{publishBatch(allKeys)[i] :
                             i \in 1..Len(publishBatch(allKeys))}
                           -> {"accept", "reject", "error"}] :
             publishKeys(allKeys, answer)

\* --------------------------------------------------- the descriptor codec
\* A character without a value.
NoVal == [kind |-> "none", key |-> 0, body |-> <<>>]

Ch(c) == [c |-> c, val |-> NoVal]

CR == Ch("CR")
LF == Ch("LF")
SP == Ch("SP")
TAB == Ch("TAB")

\* The identity keys there are.
IdentityKeys == {1, 2}

\* "Digest:" and "Signature:" at the start of a line, each taken as one
\* character, and "Identity: " followed by the encoded key.
DigestField == Ch("D")
SignatureField == Ch("G")
IdentityField(k) == [c |-> "I", val |-> [kind |-> "key", key |-> k,
                                         body |-> <<>>]]

\* [ \t] of the regular expressions of lines 686-687.
isWs(ch) == ch.c \in {"SP", "TAB"}

\* _abnormal_line_ending_re.sub("\n", s), lines 688 and 693: every CR LF
\* and every other CR becomes one LF.
RECURSIVE subLineEndings(_)
subLineEndings(s) ==
    IF s = <<>> THEN <<>>
    ELSE IF Head(s).c = "CR"
         THEN IF Len(s) >= 2 /\ s[2].c = "LF"
              THEN <<LF>> \o subLineEndings(SubSeq(s, 3, Len(s)))
              ELSE <<LF>> \o subLineEndings(Tail(s))
         ELSE <<Head(s)>> \o subLineEndings(Tail(s))

\* [ \t]+$ with re.M matches at position i when only spaces and tabs lie
\* between i and the next LF or the end of the string.
RECURSIVE wsToEol(_, _)
wsToEol(s, i) ==
    IF i > Len(s) THEN TRUE
    ELSE IF s[i].c = "LF" THEN TRUE
    ELSE IF isWs(s[i]) THEN wsToEol(s, i + 1)
    ELSE FALSE

\* ^[ \t]+ with re.M matches up to position i when only spaces and tabs
\* lie between the start of the string or the last LF and i.
RECURSIVE wsFromBol(_, _)
wsFromBol(s, i) ==
    IF i < 1 THEN TRUE
    ELSE IF s[i].c = "LF" THEN TRUE
    ELSE IF isWs(s[i]) THEN wsFromBol(s, i - 1)
    ELSE FALSE

\* re.sub("", s): the string without the characters matched.
RECURSIVE without(_, _, _)
without(s, matched, i) ==
    IF i > Len(s) THEN <<>>
    ELSE (IF i \in matched THEN <<>> ELSE <<s[i]>>)
             \o without(s, matched, i + 1)

\* _trailing_whitespace_re.sub("", s), line 694.
subTrailingWhitespace(s) ==
    without(s, {i \in 1..Len(s) : isWs(s[i]) /\ wsToEol(s, i)}, 1)

\* _leading_whitespace_re.sub("", s), line 695.
subLeadingWhitespace(s) ==
    without(s, {i \in 1..Len(s) : isWs(s[i]) /\ wsFromBol(s, i)}, 1)

\* _cleanForDigest with the line ends replaced after the white space is
\* stripped.
cleanForDigest_EndingsLast(s) ==
    LET s3 == subLineEndings(subLeadingWhitespace(
                                subTrailingWhitespace(s)))
    IN IF s3 = <<>> \/ s3[Len(s3)].c # "LF" THEN s3 \o <<LF>> ELSE s3

\* _cleanForDigest, lines 689-698.
cleanForDigest(s) ==
    LET s3 == subLeadingWhitespace(
                 subTrailingWhitespace(subLineEndings(s)))
    IN IF s3 = <<>> \/ s3[Len(s3)].c # "LF" THEN s3 \o <<LF>> ELSE s3

\* The lines of a string, without their LF; what follows the last LF is a
\* line if it is not empty.
RECURSIVE splitLines(_, _)
splitLines(s, cur) ==
    IF s = <<>> THEN (IF cur = <<>> THEN <<>> ELSE <<cur>>)
    ELSE IF Head(s).c = "LF"
         THEN <<cur>> \o splitLines(Tail(s), <<>>)
         ELSE splitLines(Tail(s), Append(cur, Head(s)))

RECURSIVE joinLines(_)
joinLines(ls) ==
    IF ls = <<>> THEN <<>>
    ELSE Head(ls) \o <<LF>> \o joinLines(Tail(ls))

\* _special_line_re, line 739: ^(?:Digest|Signature):.*$ with re.M.
isSpecialLine(line) ==
    line # <<>> /\ line[1].c \in {"D", "G"}

\* regex.sub(fn, info, count) of lines 719 and 736: the first count lines
\* that match are replaced by the field's name and colon, followed by what
\* fill gives for the field (nothing for replaceFn, " value" for
\* replaceFn2).
RECURSIVE subSpecialLines(_, _, _)
subSpecialLines(ls, count, fill) ==
    IF ls = <<>> THEN <<>>
    ELSE IF count > 0 /\ isSpecialLine(Head(ls))
         THEN <<<<Head(ls)[1]>> \o fill[Head(ls)[1].c]>>
                 \o subSpecialLines(Tail(ls), count - 1, fill)
         ELSE <<Head(ls)>> \o subSpecialLines(Tail(ls), count, fill)

\* Line 719 with one substitution only.
blankSpecialLines_First(info) ==
    joinLines(subSpecialLines(splitLines(info, <<>>), 1,
                              [f \in {"D", "G"} |-> <<>>]))

\* Lines 716-719: info = regex.sub(replaceFn, info, 2)
blankSpecialLines(info) ==
    joinLines(subSpecialLines(splitLines(info, <<>>), 2,
                              [f \in {"D", "G"} |-> <<>>]))

\* Crypto.sha1: what is digested is determined by the digest.
sha1(s) == [kind |-> "sha1", key |-> 0, body |-> s]

\* Crypto.pk_sign and pk_check_signature: the digest comes back under the
\* key that signed, CryptoError under any other key or from a value that is
\* no signature.
pk_sign(digest, rsa) == [kind |-> "sig", key |-> rsa, body |-> digest.body]

CryptoError == [kind |-> "CryptoError", key |-> 0, body |-> <<>>]

pk_check_signature(sig, key) ==
    IF sig.kind = "sig" /\ sig.key = key THEN sha1(sig.body)
    ELSE CryptoError

\* Common.formatBase64: a one-line encoding, taken as one character.
formatBase64(v) == [c |-> "b64", val |-> v]

\* _getDigestImpl without rsa, lines 715-723 (getServerInfoDigest, lines
\* 676-678).
getServerInfoDigest(info) == sha1(blankSpecialLines(cleanForDigest(info)))

\* _getDigestImpl with rsa, lines 715-737 (signServerInfo, lines 680-684).
signServerInfo(info, rsa) ==
    LET blank == blankSpecialLines(cleanForDigest(info))
        digest == sha1(blank)
        signature == pk_sign(digest, rsa)
    IN joinLines(subSpecialLines(
           splitLines(blank, <<>>), 2,
           [f \in {"D", "G"} |->
               IF f = "D" THEN <<SP, formatBase64(digest)>>
               ELSE <<SP, formatBase64(signature)>>]))

\* The configuration file parser: the value of the first line of the
\* field, decoded; ParseError when there is no such line or its value is
\* not one encoded value.
ParseError == [kind |-> "ParseError", key |-> 0, body |-> <<>>]

fieldValue(s, f) ==
    LET ls == splitLines(subTrailingWhitespace(subLineEndings(s)), <<>>)
        idx == {i \in 1..Len(ls) : ls[i] # <<>> /\ ls[i][1].c = f}
    IN IF idx = {} THEN ParseError
       ELSE LET line == ls[CHOOSE i \in idx : \A j \in idx : i <= j]
                rest == without(line, {i \in 1..Len(line) :
                                         i = 1 \/ isWs(line[i])}, 1)
            IN IF f = "I" /\ rest = <<>> THEN line[1].val
               ELSE IF Len(rest) = 1 /\ rest[1].c = "b64" THEN rest[1].val
               ELSE ParseError

\* ServerInfo.validate, lines 233-306: the exception raised, "none" when
\* self._isValidated = 1 is reached.
validate(contents, cache) ==
    LET digest == getServerInfoDigest(contents)
        identityKey == fieldValue(contents, "I")
        signedDigest1 == pk_check_signature(fieldValue(contents, "G"),
                                            identityKey.key)
    IN IF fieldValue(contents, "D") = ParseError
          \/ fieldValue(contents, "G") = ParseError
          \/ identityKey = ParseError
       THEN "ConfigError"
       ELSE IF digest # fieldValue(contents, "D") THEN "Invalid digest"
       ELSE IF cache # {} /\ digest \in cache THEN "none"
       ELSE IF signedDigest1 = CryptoError THEN "Invalid signature"
       ELSE IF digest # signedDigest1 THEN "Signed digest is incorrect"
       ELSE "none"

\* ---- the codec's operations
CodecIdle ==
    /\ text = <<>>
    /\ codecOp = "none"
    /\ signedDigest = NoVal
    /\ validatedDigests = {}
    /\ isValidated = 0
    /\ infoExc = "none"

\* The strings the cleaning transform is applied to.
CleanAlphabet == {CR, LF, SP, TAB, Ch("a")}

RECURSIVE StringsUpTo(_)
StringsUpTo(n) ==
    IF n = 0 THEN {<<>>}
    ELSE LET shorter == StringsUpTo(n - 1)
         IN shorter \cup {Append(s, ch) : s \in shorter, ch \in CleanAlphabet}

CleanInit ==
    /\ text \in StringsUpTo(MaxLen)
    /\ codecOp = "none"
    /\ signedDigest = NoVal
    /\ validatedDigests = {}
    /\ isValidated = 0
    /\ infoExc = "none"

\* s = _cleanForDigest(s)
Clean ==
    /\ codecOp \in {"none", "clean"}
    /\ text' = cleanForDigest(text)
    /\ codecOp' = IF codecOp = "none" THEN "clean" ELSE "cleanAgain"
    /\ UNCHANGED <<signedDigest, validatedDigests, isValidated, infoExc,
                   nonCodecVars>>

NextClean == Clean

\* The descriptors generateServerDescriptorAndKeys hands to signServerInfo
\* (ServerKeys.py lines 833-895): lines joined by an end of line, with the
\* lines Digest: and Signature: empty.
EndOfLines == {<<LF>>, <<CR, LF>>, <<CR>>}

RECURSIVE joinWith(_, _)
joinWith(ls, eol) ==
    IF ls = <<>> THEN <<>>
    ELSE Head(ls) \o eol \o joinWith(Tail(ls), eol)

Descriptors ==
    {joinWith(<<<<Ch("[")>>, <<IdentityField(k)>>, <<DigestField>> \o pad,
                <<SignatureField>>, <<Ch(n)>>>>, eol) :
        k \in IdentityKeys, pad \in {<<>>, <<SP>>}, n \in {"a", "b"},
        eol \in EndOfLines}
    \cup
    {joinWith(<<<<Ch("[")>>, <<SignatureField>>, <<IdentityField(k)>>,
                <<DigestField, TAB>>, <<Ch(n)>>>>, <<LF>>) :
        k \in IdentityKeys, n \in {"a", "b"}}

CodecInit ==
    /\ text \in Descriptors
    /\ codecOp = "none"
    /\ signedDigest = NoVal
    /\ validatedDigests = {}
    /\ isValidated = 0
    /\ infoExc = "none"

\* info = signServerInfo(info, identityKey), ServerKeys.py line 895.
Sign(rsa) ==
    /\ codecOp = "none"
    /\ text' = signServerInfo(text, rsa)
    /\ signedDigest' = sha1(blankSpecialLines(cleanForDigest(text)))
    /\ codecOp' = "sign"
    /\ UNCHANGED <<validatedDigests, isValidated, infoExc, nonCodecVars>>

\* The descriptor is sent with other line ends.
Recode ==
    /\ codecOp = "sign"
    /\ \E eol \in EndOfLines \ {<<LF>>} :
          text' = joinWith(splitLines(text, <<>>), eol)
    /\ codecOp' = "recode"
    /\ UNCHANGED <<signedDigest, validatedDigests, isValidated, infoExc,
                   nonCodecVars>>

\* The values someone else may write on the Digest and Signature lines of
\* a signed descriptor.
OtherValues ==
    {Ch("a")}
    \cup {formatBase64(sha1(<<>>))}
    \cup {formatBase64(pk_sign(signedDigest, k)) : k \in IdentityKeys}
    \cup {formatBase64(pk_sign(sha1(<<>>), k)) : k \in IdentityKeys}

setField(s, f, v) ==
    LET ls == splitLines(subLineEndings(s), <<>>)
    IN joinLines([i \in 1..Len(ls) |->
                     IF ls[i] # <<>> /\ ls[i][1].c = f
                     THEN <<ls[i][1], SP, v>> ELSE ls[i]])

\* Someone writes another value on the Digest or the Signature line.
Rewrite(f, v) ==
    /\ codecOp \in {"sign", "recode", "ServerInfo"}
    /\ setField(text, f, v) # text
    /\ text' = setField(text, f, v)
    /\ codecOp' = "rewrite"
    /\ isValidated' = 0
    /\ infoExc' = "none"
    /\ UNCHANGED <<signedDigest, validatedDigests, nonCodecVars>>

\* ServerInfo(string=text, assumeValid=assumeValid,
\* validatedDigests=cache), lines 190-204: the configuration file's
\* constructor calls validate unless assumeValid is set.  A caller that
\* keeps a cache adds the digest of a descriptor it found validated.
ServerInfo(assumeValid, useCache) ==
    /\ codecOp \in {"sign", "recode", "rewrite"}
    /\ codecOp' = "ServerInfo"
    /\ LET cache == IF useCache THEN validatedDigests ELSE {}
           exc == IF assumeValid THEN "assumed" ELSE validate(text, cache)
       IN /\ infoExc' = IF assumeValid THEN "none" ELSE exc
          /\ isValidated' = IF exc = "none" THEN 1 ELSE 0
          /\ validatedDigests' =
                IF exc = "none"
                THEN validatedDigests \cup {getServerInfoDigest(text)}
                ELSE validatedDigests
    /\ UNCHANGED <<text, signedDigest, nonCodecVars>>

NextCodec ==
    \/ \E rsa \in IdentityKeys : Sign(rsa)
    \/ Recode
    \/ \E f \in {"D", "G"}, v \in OtherValues : Rewrite(f, v)
    \/ \E assumeValid, useCache \in BOOLEAN : ServerInfo(assumeValid, useCache)

\* ------------------------------------------------------ the worker threads
\* ProcessingThread and CleaningThread of ServerMain.py, each with its
\* MessageQueue (a FIFO queue whose get() waits for an item).
Jobs == 1 .. MaxJobs
\* The instance of ProcessingThread._Shutdown that shutdown() puts.
ShutdownJob == 0
FileNames == 1 .. 2
\* None on the cleaning thread's queue.
None == 0

\* The items of a sequence.
Range(q) == {q[i] : i \in 1 .. Len(q)}

WorkReset ==
    /\ ptQueue = <<>>
    /\ ptPut = <<>>
    /\ ptPc = "get"
    /\ ptJob = ShutdownJob
    /\ ptStarted = <<>>
    /\ ptRan = <<>>
    /\ ctQueue = <<>>
    /\ ctPut = <<>>
    /\ ctPc = "get"
    /\ ctFn = None
    /\ ctHandled = <<>>

\* No file is there and the threads have nothing to do.
WorkIdle == WorkReset /\ files = {}

\* MixminionServer.__init__ has made the threads; some files exist.
WorkInit == WorkReset /\ files \in SUBSET FileNames

ptVars == <<ptQueue, ptPut, ptPc, ptJob, ptStarted, ptRan>>
ctVars == <<ctQueue, ctPut, ctPc, ctFn, ctHandled, files>>

\* ProcessingThread.addJob(job): self.mqueue.put(job).
addJob(job) ==
    /\ job \notin Range(ptPut)
    /\ ptQueue' = Append(ptQueue, job)
    /\ ptPut' = Append(ptPut, job)
    /\ UNCHANGED <<ptPc, ptJob, ptStarted, ptRan, ctVars, nonWorkVars>>

\* ProcessingThread.shutdown(): self.mqueue.put(ProcessingThread._Shutdown()).
\* MixminionServer.close() calls it once.
ptShutdown ==
    /\ ShutdownJob \notin Range(ptPut)
    /\ ptQueue' = Append(ptQueue, ShutdownJob)
    /\ ptPut' = Append(ptPut, ShutdownJob)
    /\ UNCHANGED <<ptPc, ptJob, ptStarted, ptRan, ctVars, nonWorkVars>>

\* ProcessingThread.run: job = self.mqueue.get()
ptGet ==
    /\ ptPc = "get"
    /\ ptQueue # <<>>
    /\ ptJob' = Head(ptQueue)
    /\ ptQueue' = Tail(ptQueue)
    /\ ptPc' = "call"
    /\ UNCHANGED <<ptPut, ptStarted, ptRan, ctVars, nonWorkVars>>

\* How a call job() may end.  _Shutdown.__call__ raises the instance; a job
\* of the incoming queue (__deliverMessage) returns, or raises what
\* messageContents or a removeMessage within an except clause raised.
jobEnds(job) == IF job = ShutdownJob THEN {"_Shutdown"}
                ELSE {"returns", "raises"}

\* ProcessingThread.run: job(), and the except clauses around the loop.
ptCall(end) ==
    /\ ptPc = "call"
    /\ end \in jobEnds(ptJob)
    /\ ptStarted' = IF ptJob = ShutdownJob THEN ptStarted
                    ELSE Append(ptStarted, ptJob)
    /\ ptRan' = IF end = "returns" THEN Append(ptRan, ptJob) ELSE ptRan
    /\ ptPc' = CASE end = "returns" -> "get"
                 [] end = "_Shutdown" -> "exited"
                 [] OTHER -> "dead"
    /\ UNCHANGED <<ptQueue, ptPut, ptJob, ctVars, nonWorkVars>>

\* CleaningThread.deleteFile(fname): self.mqueue.put(fname).  cleanQueues
\* passes the names of the files to remove at every SHRED event, so a name
\* may be put again before the thread has come to it.
deleteFile(fname) ==
    /\ Len(SelectSeq(ctPut, LAMBDA x : x # None)) < MaxDeletes
    /\ ctQueue' = Append(ctQueue, fname)
    /\ ctPut' = Append(ctPut, fname)
    /\ UNCHANGED <<ctPc, ctFn, ctHandled, files, ptVars, nonWorkVars>>

\* CleaningThread.shutdown(): self.mqueue.put(None).
ctShutdown ==
    /\ None \notin Range(ctPut)
    /\ ctQueue' = Append(ctQueue, None)
    /\ ctPut' = Append(ctPut, None)
    /\ UNCHANGED <<ctPc, ctFn, ctHandled, files, ptVars, nonWorkVars>>

\* CleaningThread.run: fn = self.mqueue.get(); if fn is None: return
ctGet ==
    /\ ctPc = "get"
    /\ ctQueue # <<>>
    /\ ctFn' = Head(ctQueue)
    /\ ctQueue' = Tail(ctQueue)
    /\ ctPc' = IF Head(ctQueue) = None THEN "exited" ELSE "exists"
    /\ UNCHANGED <<ctPut, ctHandled, files, ptVars, nonWorkVars>>

\* (mutant) a missing file ends the thread.
onMissingFile_Raise == "dead"

\* Where run() goes when os.path.exists(fn) is false: LOG.warn, and on with
\* the loop.
onMissingFile == "get"

\* CleaningThread.run: if os.path.exists(fn): ... else: LOG.warn(...)
ctExists ==
    /\ ctPc = "exists"
    /\ IF ctFn \in files
       THEN /\ ctPc' = "delete"
            /\ UNCHANGED ctHandled
       ELSE /\ ctPc' = onMissingFile
            /\ ctHandled' = Append(ctHandled, [fn |-> ctFn, how |-> "warned"])
    /\ UNCHANGED <<ctQueue, ctPut, ctFn, files, ptVars, nonWorkVars>>

\* Common.secureDelete(fn, blocking=1): the file is overwritten and
\* removed before the call returns.
secureDelete(fn) == files \ {fn}

\* CleaningThread.run: secureDelete(fn, blocking=1)
ctDelete ==
    /\ ctPc = "delete"
    /\ files' = secureDelete(ctFn)
    /\ ctHandled' = Append(ctHandled, [fn |-> ctFn, how |-> "deleted"])
    /\ ctPc' = "get"
    /\ UNCHANGED <<ctQueue, ctPut, ctFn, ptVars, nonWorkVars>>

\* The steps of the cleaning thread.
ctStep == ctGet \/ ctExists \/ ctDelete

NextProcessing ==
    \/ \E job \in Jobs : addJob(job)
    \/ ptShutdown
    \/ ptGet
    \/ \E end \in {"returns", "raises", "_Shutdown"} : ptCall(end)

NextCleaning ==
    \/ \E fname \in FileNames : deleteFile(fname)
    \/ ctShutdown
    \/ ctGet
    \/ ctExists
    \/ ctDelete


\* ------------------------------------------------------ ServerKeyset
\* The KeySets of a keyring, by name.
Keysets == 1 .. 2

KsetInit ==
    /\ publishedFile = [k \in Keysets |-> FALSE]
    /\ published = [k \in Keysets |-> FALSE]
    /\ descFile = [k \in Keysets |-> 0]
    /\ uploaded = [k \in Keysets |-> {}]
    /\ ksetOp = [op |-> "none", ks |-> 0]

\* ServerKeyset.__init__, lines 494-514, called by checkKeys for every key
\* directory: self.published = os.path.exists(self.publishedFile).
newServerKeyset(k) ==
    /\ published' = [published EXCEPT ![k] = publishedFile[k]]
    /\ ksetOp' = [op |-> "__init__", ks |-> k]
    /\ UNCHANGED <<publishedFile, descFile, uploaded, nonKsetVars>>

\* ServerKeyset.isPublished(), lines 551-553.
isPublished(k) == published[k]

\* publishKeys(allKeys=0), lines 196-214: the KeySets that are uploaded,
\* when the directory answers answer[k] to the descriptor of k: those that
\* are not published, up to the first one answered 'error'.
uploadedBy(answer) ==
    {k \in Keysets :
        /\ ~isPublished(k)
        /\ \A j \in Keysets : (j < k /\ ~isPublished(j)) => answer[j] # "error"}

\* publishKeys(allKeys=0) with ServerKeyset.publish, lines 583-621, and
\* markAsPublished, lines 554-562, for the descriptors accepted.
ksetPublishKeys(answer) ==
    /\ uploaded' = [k \in Keysets |->
                       IF k \in uploadedBy(answer)
                       THEN uploaded[k] \cup {descFile[k]} ELSE uploaded[k]]
    /\ publishedFile' = [k \in Keysets |->
                            (k \in uploadedBy(answer) /\ answer[k] = "accept")
                               \/ publishedFile[k]]
    /\ published' = [k \in Keysets |->
                        (k \in uploadedBy(answer) /\ answer[k] = "accept")
                           \/ published[k]]
    /\ ksetOp' = [op |-> "publishKeys", ks |-> 0]
    /\ UNCHANGED <<descFile, nonKsetVars>>

\* ServerKeyset.markAsUnpublished(), lines 563-568.
markAsUnpublished(k) ==
    /\ publishedFile' = [publishedFile EXCEPT ![k] = FALSE]
    /\ published' = [published EXCEPT ![k] = FALSE]
    /\ ksetOp' = [op |-> "markAsUnpublished", ks |-> k]
    /\ UNCHANGED <<descFile, uploaded, nonKsetVars>>

\* ServerKeyset.regenerateServerDescriptor, lines 569-581: the marker file
\* is unlinked, a new ServerDesc is written, and self.serverinfo,
\* self.validAfter and self.validUntil are reset; self.published is not
\* assigned.
regenerateServerDescriptor(k) ==
    /\ descFile[k] < MaxRegen
    /\ publishedFile' = [publishedFile EXCEPT ![k] = FALSE]
    /\ descFile' = [descFile EXCEPT ![k] = @ + 1]
    /\ ksetOp' = [op |-> "regenerateServerDescriptor", ks |-> k]
    /\ UNCHANGED <<published, uploaded, nonKsetVars>>

NextKeyset ==
    \/ \E k \in Keysets : newServerKeyset(k)
    \/ \E answer \in [Keysets -> {"accept", "reject", "error"}] :
          ksetPublishKeys(answer)
    \/ \E k \in Keysets : markAsUnpublished(k)
    \/ \E k \in Keysets : regenerateServerDescriptor(k)

\* The pipeline of one running server; no other process comes into play.
Init ==
    PipeInit /\ LockInit /\ DelivInit /\ SchedInit /\ KeyIdle /\ CodecIdle
    /\ WorkIdle /\ KsetInit

\* The processes started on one home directory; the pipeline stays as
\* installed.
PipeIdle ==
    /\ PipeInit
    /\ mixAlgorithm = "TimedMixQueue"
    /\ received = {}

InitLock ==
    PipeIdle /\ LockInit /\ DelivInit /\ SchedInit /\ KeyIdle /\ CodecIdle
    /\ WorkIdle /\ KsetInit

InitDeliver ==
    PipeIdle /\ LockInit /\ DelivInit /\ SchedInit /\ KeyIdle /\ CodecIdle
    /\ WorkIdle /\ KsetInit

SpecDeliver == InitDeliver /\ [][NextDeliver]_vars

InitSched ==
    PipeIdle /\ LockInit /\ DelivInit /\ SchedInit /\ KeyIdle /\ CodecIdle
    /\ WorkIdle /\ KsetInit

SpecSched == InitSched /\ [][NextSched]_vars

\* The main thread is not held up for ever: when it can take a step, it
\* eventually takes one.
FairSpecSched == SpecSched /\ WF_vars(SchedStep)

SpecLock == InitLock /\ [][NextLock]_vars

\* The keystore and the keyring of the process working on it.
InitKeys ==
    PipeIdle /\ LockInit /\ DelivInit /\ SchedInit /\ KeyInit /\ CodecIdle
    /\ WorkIdle /\ KsetInit

SpecKeys == InitKeys /\ [][NextKeys]_vars

\* The keys in use by the server's handlers.
SpecRotate == InitKeys /\ [][NextRotate]_vars

\* The first keys of a server started at any time of day.
SpecFresh == InitKeys /\ [][NextFresh]_vars

\* The cached time of the next key rotation.
SpecCache == InitKeys /\ [][NextCache]_vars

\* The keyring shared by two threads.
SpecThreads == InitKeys /\ [][NextThreads]_vars

\* The keystore's keys and their publication.
SpecPublish == InitKeys /\ [][NextPublish]_vars

\* The cleaning transform applied to a string, and applied again.
InitClean ==
    PipeIdle /\ LockInit /\ DelivInit /\ SchedInit /\ KeyIdle /\ CleanInit
    /\ WorkIdle /\ KsetInit

SpecClean == InitClean /\ [][NextClean]_vars

\* A descriptor signed, sent, rewritten and read.
InitCodec ==
    PipeIdle /\ LockInit /\ DelivInit /\ SchedInit /\ KeyIdle /\ CodecInit
    /\ WorkIdle /\ KsetInit

SpecCodec == InitCodec /\ [][NextCodec]_vars

\* The worker threads, their queues and the files to delete.
InitWorkers ==
    PipeIdle /\ LockInit /\ DelivInit /\ SchedInit /\ KeyIdle /\ CodecIdle
    /\ WorkInit /\ KsetInit

\* The processing thread and its jobs.
SpecProcessing == InitWorkers /\ [][NextProcessing]_vars

\* The cleaning thread and the files it is given.
SpecCleaning == InitWorkers /\ [][NextCleaning]_vars

\* The cleaning thread is not held up for ever.
FairSpecCleaning == SpecCleaning /\ WF_vars(ctStep)

\* The ServerKeyset objects of a keyring, published and regenerated.
InitKeyset ==
    PipeIdle /\ LockInit /\ DelivInit /\ SchedInit /\ KeyIdle /\ CodecIdle
    /\ WorkIdle /\ KsetInit

SpecKeyset == InitKeyset /\ [][NextKeyset]_vars

\* Processes that hold the home directory as theirs: from the flock taken
\* in __init__ until close() has stopped the threads.
Operating == {s \in Servers : srvPc[s] \in {"locked", "running"}}

\* C4 (as claimed): at any time at most one server process operates on the
\* home directory, however start-ups interleave with another's close().
C4_SingleInstance == Cardinality(Operating) <= 1

\* --------------------------------------------------------- specifications
NextRun ==
    \/ \E p \in Packets : queueMessage_persist(p)
    \/ queueMessage_addJob
    \/ ProcGet
    \/ ProcContents
    \/ \E o \in Outcomes : ProcUnwrap(o)
    \/ ProcDecode
    \/ ProcInsert
    \/ ProcRemoveTry
    \/ ProcRemoveExc
    \/ MixBegin
    \/ MixLock
    \/ MixSyncLogs
    \/ MixGetBatch
    \/ MixHandOff
    \/ MixRemove
    \/ MixDone
    \/ MixUnlock
    \/ SendOutgoing
    \/ SendModules
    \/ \E p \in Packets : TransportSent(p)
    \/ \E p \in Packets : ModuleDeliver(p)

Next == NextRun \/ CrashRestart

\* A run in which syncLogs() and mix() may raise.
NextMix == NextRun \/ MixRaise \/ MixFinally

\* The incoming side alone: the transport stores packets, the processing
\* thread handles them, and the process is killed and restarted; no MIX
\* event is dispatched.
NextIncoming ==
    \/ \E p \in Packets : queueMessage_persist(p)
    \/ queueMessage_addJob
    \/ ProcGet
    \/ ProcContents
    \/ \E o \in Outcomes : ProcUnwrap(o)
    \/ ProcDecode
    \/ ProcInsert
    \/ ProcRemoveTry
    \/ ProcRemoveExc
    \/ CrashRestart

Spec == Init /\ [][Next]_vars

SpecRun == Init /\ [][NextRun]_vars

SpecMix == Init /\ [][NextMix]_vars

SpecIncoming == Init /\ [][NextIncoming]_vars

\* ------------------------------------------------------------------ claims
Handed(p) == handedOut[p] + handedMod[p]
InPool(p) == IF pool[p] # "none" THEN 1 ELSE 0
\* 1 while mix() has handed p downstream and not yet removed it.
HandOffPending(p) ==
    IF mainPc = "remove" /\ mixH = p /\ mixHanded THEN 1 ELSE 0

\* C1: whenever the MIX handler hands a packet of the pool to the outgoing
\* queue or the module manager, the packet's replay-log entry is durable and
\* a syncLogs() call has run since the packet entered the pool; the same
\* holds of every packet of the batch still to be handed off.  The
\* processing thread runs concurrently throughout.
C1_SyncedBeforeHandOff ==
    /\ (mainPc = "remove" /\ mixHanded) =>
          (mixH \in hashSynced /\ mixH \in syncedSinceInsert)
    /\ mainPc \in {"loop", "remove"} =>
          \A p \in batch : pool[p] # "obsolete" =>
              (p \in hashSynced /\ p \in syncedSinceInsert)

\* C1 witness: a packet has just been handed downstream while the processing
\* thread, having unwrapped another packet, waits at the pool's lock.
C1_Witness ==
    /\ mainPc = "remove" /\ mixHanded
    /\ procPc = "insert" /\ poolLock = "main"
    /\ procH \in hashLog \ hashSynced

\* C2 (as claimed): once the server has been killed and restarted, no packet
\* is both in the mix pool and in a downstream queue, and no packet is ever
\* emitted twice.
C2_CrashSafe ==
    /\ (crashes > 0 /\ mainPc = "wait") =>
          \A p \in Packets : ~(pool[p] # "none" /\ outgoing[p] + modq[p] > 0)
    /\ \A p \in Packets : emitted[p] <= 1

C6_ThreadSurvives == procPc # "dead"

\* C7: in a run every handle is submitted to the processing thread at most
\* once, a handle in the incoming queue has been submitted exactly once
\* (unless queueMessage is between storing it and addJob), a job's handle
\* is in the incoming queue when the job is queued, and a packet is inserted
\* into the pool at most once per run.
C7_SubmittedOnce ==
    /\ \A h \in Packets :
          /\ submitted[h] <= 1
          /\ insertedRun[h] <= 1
          /\ (h \in incoming /\ ~(mainPc = "addJob" /\ recvH = h)) =>
                submitted[h] = 1
    /\ \A i \in 1..Len(mqueue) : mqueue[i] \in incoming

\* C7 witness: after a restart, a job for a handle that survived the last run
\* and a job for a newly received packet are both queued.
C7_Witness ==
    /\ crashes > 0
    /\ Len(mqueue) = 2
    /\ \E h \in incoming : unwrappedAs[h] # "none" /\ submitted[h] = 1

\* C8: an outgoing entry is deleted when the transport reports it sent, or
\* reports a non-retriable failure, or reports a retriable failure with the
\* schedule exhausted; a retriable failure on retry n < Len(schedule) keeps
\* it and makes it deliverable again at failure time + schedule[n] (and not
\* before); after a deletion it is never handed out again.  With schedule
\* <<60, 300, 3600>>, two refusals and then an acceptance reschedule the
\* entry at +60 and +300, deliver it on the third attempt, and delete it.
\* Each sendMessages call carries handles whose packets go to its address.
C8_RetryLadder ==
    /\ \A h \in Entries :
        LET rs == dresults[h]
            n == Len(rs)
        IN /\ \A i \in 1..(n - 1) : rs[i] = "retriable"
           /\ dattempts[h] = n + (IF dstate[h] = "pending" THEN 1 ELSE 0)
           /\ n = 0 => (dstate[h] # "gone" /\ dretries[h] = 0)
           /\ (n > 0 /\ rs[n] \in {"sent", "fatal"}) => dstate[h] = "gone"
           /\ (n > Len(RetrySchedule) /\ rs[n] = "retriable") => dstate[h] = "gone"
           /\ (n \in 1..Len(RetrySchedule) /\ rs[n] = "retriable") =>
                 /\ dstate[h] \in {"sendable", "pending"}
                 /\ dretries[h] = n
                 /\ dwait[h] = RetrySchedule[n] - dsince[h]
                 /\ dresched[h] = SubSeq(RetrySchedule, 1, n)
           /\ dstate[h] = "pending" => dwait[h] = 0
           /\ ddelivered[h] <= 1
           /\ rs = <<"retriable", "retriable", "sent">> =>
                 /\ dresched[h] = <<60, 300>>
                 /\ dattempts[h] = 3
                 /\ ddelivered[h] = 1
                 /\ dstate[h] = "gone"
    /\ \A b \in inflight :
          \A h \in b.handles : daddr[h] = b.addr /\ dstate[h] = "pending"

\* C8 witness: the destination of an entry refused twice and then accepted,
\* while another entry to the same address ran out of retries.
C8_Witness ==
    \E h, g \in Entries :
        /\ dresults[h] = <<"retriable", "retriable", "sent">>
        /\ dstate[h] = "gone"
        /\ daddr[g] = daddr[h]
        /\ Len(dresults[g]) = Len(RetrySchedule) + 1
        /\ dstate[g] = "gone"

\* C9 (as claimed): once SIGTERM has set STOPPING, the next iteration of the
\* main loop reads the flag, so an iteration that begins with the flag set
\* does not go on to dispatch an event, even when the head event is due.
C9_StopReadNextIteration ==
    [][(schedPc = "top" /\ STOPPING = 1) => schedPc' # "dispatch"]_vars

\* C10 (as claimed): when a worker thread has ended while the server runs,
\* the main loop eventually observes it and run() returns.
C10_DeadThreadObserved ==
    (\E th \in Threads : ~alive[th]) ~> (schedPc = "returned")


\* C11 (as claimed): close() stops and joins the threads and only then
\* removes the lock file and the pid file; once close() has returned, the
\* process holds no flock and no descriptor on the lock file and its pid
\* file is gone, whatever the outcome of the individual removal steps.
C11_CloseReleasesAll ==
    \A s \in Servers :
        srvPc[s] = "closed" =>
            /\ lockFD[s] = 0
            /\ \A i \in Inodes : flockHolder[i] # s
            /\ pidFile # s


\* The latest Valid-Until of the keystore; -1 without keys.
LatestValidUntil ==
    IF keyDisk = {} THEN -1
    ELSE CHOOSE t \in {k.vu : k \in keyDisk} : \A k \in keyDisk : k.vu <= t

\* C12 (as claimed): after createKeysAsNeeded(now) returns, whatever the
\* keyring was before (empty, last key ending within days, last key ending
\* more than three days ahead, last key long expired), the latest
\* Valid-Until is at least now + PREPUBLICATION_INTERVAL (14 days).
C12_CoverageAfterKeygen ==
    (keyOp.op = "createKeysAsNeeded" /\ keyExc = "none")
        => LatestValidUntil >= keyOp.now + PREPUBLICATION_INTERVAL


\* The keysets of self.currentKeys, by name.
CurrentNames ==
    UNION {{keys[i] : i \in 1..Len(keys)} : keys \in currentKeys}

\* updateKeys(..., when) has returned: self.currentKeys is
\* getServerKeysets(when).
UpdatedAt(when) ==
    keyOp = [op |-> "updateKeys", now |-> when] /\ keyExc = "none"

\* C13 (as claimed): the live KeySets the keyring computes for a time t
\* are exactly those with Valid-After <= t <= Valid-Until.
C13_Original ==
    \A when \in WhenArgs :
        UpdatedAt(when) =>
            CurrentNames = {k.name : k \in {j \in keyDisk :
                                j.va <= when /\ when <= j.vu}}

\* C13 (amended): the live KeySets the keyring computes for a time t are
\* exactly those that became valid before t and did not expire until
\* keyOverlap seconds before t: Valid-After < t < Valid-Until + overlap.
C13_LiveKeys ==
    \A when \in WhenArgs :
        UpdatedAt(when) =>
            CurrentNames = {k.name : k \in {j \in keyDisk :
                                j.va < when /\ when < j.vu + keyOverlap}}

\* updateKeys computed a live set holding a KeySet that is past its
\* Valid-Until, and there is a KeySet it left out.
C13_Witness ==
    \E when \in WhenArgs :
        /\ UpdatedAt(when)
        /\ \E k \in keyDisk : k.name \in CurrentNames /\ k.vu < when
        /\ \E k \in keyDisk : k.name \notin CurrentNames


\* C14: removeDeadKeys(now) removes exactly the KeySets whose Valid-Until +
\* overlap is earlier than now, with their hash-log files, and keeps every
\* other KeySet: a step of removeDeadKeys that returns leaves the key
\* directories with Valid-Until + overlap >= now as they were and no other,
\* and leaves no hash log of a removed KeySet; so no KeySet that is valid at
\* now or later is removed.
C14_RemovesExactlyDead ==
    [][\A now \in NowArgs :
          (removeDeadKeys(now) /\ keyExc' = "none") =>
              /\ keyDisk' = {k \in keyDisk : k.vu + keyOverlap >= now}
              /\ hashFiles' = hashFiles \ {k.name : k \in keyDisk \ keyDisk'}
              /\ \A k \in keyDisk : k.vu >= now => k \in keyDisk'
              /\ [i \in 1..Len(keySets') |-> keySets'[i][3]]
                    \in Perms(KeyNames(keyDisk'))]_vars


\* removeDeadKeys(now), with now 30 days ahead, returned and no KeySet
\* remains, the packet handler still holding the hash logs of KeySets that
\* were live before.
C14_Witness ==
    /\ keyOp = [op |-> "removeDeadKeys", now |-> ktime + 30 * Day]
    /\ keyExc = "none"
    /\ keyDisk = {}
    /\ hashFiles = {}
    /\ hashLogs # <<>>


\* The KeySets of the keystore that are live at when.
LiveAt(when) ==
    {k \in keyDisk : k.va < when /\ when < k.vu + keyOverlap}

\* C15 (as claimed): updateKeys(packetHandler, mmtpServer, when) completes
\* in every keyring state, also when no KeySet is live at when; after it
\* the transport holds the context of the live KeySet with the latest
\* Valid-After, and the packet handler holds the packet keys and the hash
\* logs of the KeySets live at when and of no other, in the same order.
C15_UpdateKeysCompletes ==
    [][\A ms \in BOOLEAN, when \in WhenArgs :
          updateKeys(TRUE, ms, when) =>
              /\ keyExc' = "none"
              /\ hashLogs' = packetKeys'
              /\ {packetKeys'[i] : i \in 1..Len(packetKeys')}
                    = {k.name : k \in LiveAt(when)'}
              /\ ms => \E k \in LiveAt(when)' :
                          /\ k.name = tlsContext'
                          /\ \A j \in LiveAt(when)' : j.va <= k.va]_vars


\* KeySet j follows KeySet k in Valid-After order with none between them.
Consecutive(k, j) ==
    /\ k.va < j.va
    /\ ~\E m \in keyDisk : k.va < m.va /\ m.va < j.va

\* C16 (as claimed): the KeySets generated by createKeys and
\* createKeysAsNeeded neither overlap nor leave a gap: no two have the same
\* Valid-After, and of two consecutive ones the later begins when the
\* earlier ends, for every PublicKeyLifetime (whole days or not).
C16_NoGapNoOverlap ==
    \A k \in keyDisk, j \in keyDisk :
        /\ (k # j => k.va # j.va)
        /\ (Consecutive(k, j) => j.va = k.vu)


\* s is the sequence t, or t cut short.
IsPrefix(s, t) == Len(s) <= Len(t) /\ s = SubSeq(t, 1, Len(s))

\* C17: a publishKeys() call that returns attempted the unpublished
\* KeySets in turn (all of them unless one ended with 'error').  A KeySet
\* answered 'accept' is marked published; one answered 'reject' is left as
\* it was and the next is attempted; 'error' is the last attempt of the
\* call and the call returns 0, the KeySets accepted before it staying
\* published.  The call returns 1 only if every attempt was accepted, and a
\* KeySet becomes published only by an 'accept'.
C17_PublishOutcomes ==
    [][(keyOp'.op = "publishKeys" /\ keyExc' = "none") =>
          LET log == pubLog'
              tried == [i \in 1..Len(log) |-> log[i][1]]
              unpublished ==
                  SelectSeq(NamesIn(keySets),
                            LAMBDA n : ~KeyOf(keyDisk, n).published)
          IN /\ \/ IsPrefix(tried, unpublished)
                \/ IsPrefix(tried, NamesIn(keySets))
             /\ "error" \notin StatusesOf(log) =>
                   \A i \in 1..Len(unpublished) :
                       \E j \in 1..Len(log) : log[j][1] = unpublished[i]
             /\ \A i \in 1..Len(log) :
                   /\ log[i][2] = "accept" =>
                         KeyOf(keyDisk', log[i][1]).published
                   /\ log[i][2] = "reject" =>
                         KeyOf(keyDisk', log[i][1]).published
                            = KeyOf(keyDisk, log[i][1]).published
                   /\ log[i][2] = "error" =>
                         i = Len(log) /\ pubRet' = "0"
             /\ pubRet' = "1" => StatusesOf(log) \subseteq {"accept"}
             /\ \A k \in keyDisk :
                   KeyOf(keyDisk', k.name).published # k.published =>
                       k.name \in NamesWith(log, "accept")]_vars

\* A publishKeys() call had one KeySet accepted, the next rejected and the
\* third ending with an error; it returned 0 without attempting the
\* fourth, and the first is published.
C17_Witness ==
    /\ keyOp.op = "publishKeys"
    /\ keyExc = "none"
    /\ Len(pubLog) = 3
    /\ <<pubLog[1][2], pubLog[2][2], pubLog[3][2]>>
          = <<"accept", "reject", "error">>
    /\ pubRet = "0"
    /\ KeyOf(keyDisk, pubLog[1][1]).published
    /\ \E k \in keyDisk :
          ~k.published /\ k.name \notin {pubLog[i][1] : i \in 1..3}


\* The keysets a publishKeys call attempted, by name.
Tried(log) == {log[i][1] : i \in 1..Len(log)}

\* The keysets the last publishKeys call saw rejected and that are still
\* unpublished.
RejectedBefore ==
    {n \in NamesWith(pubLog, "reject") :
        n \in KeyNames(keyDisk) /\ ~KeyOf(keyDisk, n).published}

\* C18 (as claimed): a KeySet the directory rejected is attempted again by
\* every later publishKeys() call until the directory accepts it.
C18_Original ==
    [][(keyOp'.op = "publishKeys" /\ keyExc' = "none") =>
          RejectedBefore \subseteq Tried(pubLog')]_vars

\* C18 (amended): a publishKeys() call in which the directory rejects a
\* KeySet leaves that KeySet's marker as it was (none, for an unpublished
\* one) and leaves the keyring's key sets, key range and getNextKeygen()
\* value unchanged; the KeySet is in the batch of every later publishKeys()
\* call until it is accepted, and is attempted again in it unless an
\* earlier KeySet of that batch ended with 'error'.
C18_RejectedRetried ==
    [][(keyOp'.op = "publishKeys" /\ keyExc' = "none") =>
          /\ keySets' = keySets
          /\ keyRange' = keyRange
          /\ getNextKeygen' = getNextKeygen
          /\ \A n \in NamesWith(pubLog', "reject") :
                KeyOf(keyDisk', n).published = KeyOf(keyDisk, n).published
          /\ \A n \in RejectedBefore :
                \/ n \in Tried(pubLog')
                \/ pubLog'[Len(pubLog')][2] = "error"]_vars

\* A publishKeys() call returned 0 after the directory rejected a KeySet
\* and accepted another: the rejected one has no marker, the other has.
C18_Witness ==
    /\ keyOp.op = "publishKeys"
    /\ keyExc = "none"
    /\ pubRet = "0"
    /\ RejectedBefore # {}
    /\ \E n \in NamesWith(pubLog, "accept") : KeyOf(keyDisk, n).published


\* The key directories whose ServerDesc is missing or corrupt.
BadDirs(disk) == {k \in disk : k.desc # "ok"}

\* C19 (as claimed): a scan of the keystore (checkKeys, and so the
\* construction of the keyring, createKeys and removeDeadKeys) never aborts
\* because of a key directory with a missing or corrupt ServerDesc: it
\* skips that directory, leaves it as it is and loads every other KeySet.
C19_ScanSkipsBadDirectory ==
    [][(\/ configure
        \/ \E num \in 1..MaxNum : createKeys(num)
        \/ \E now \in NowArgs : removeDeadKeys(now)) =>
          /\ keyExc' = "none"
          /\ BadDirs(keyDisk) \subseteq keyDisk'
          /\ {keySets'[i][3] : i \in 1..Len(keySets')}
                = KeyNames(keyDisk' \ BadDirs(keyDisk'))]_vars


\* C20 (as claimed): every operation that mutates keyring state runs while
\* holding the keyring's re-entrant lock: a thread inside updateKeys (and
\* the removeDeadKeys, checkKeys and getNextKeyRotation it calls) holds
\* self._lock, so that two threads are never inside it at once.
C20_MutationsUnderLock ==
    \A t \in KeyThreads : kthread[t].pc # "idle" => keyLock = t


\* C21: the text signServerInfo(d, k) returns for a descriptor d with empty
\* Digest: and Signature: lines verifies: its recomputed digest, the value
\* of its Digest line and the digest recovered from its Signature line
\* under k all equal the digest computed at signing time; and the digest of
\* a descriptor stays the same whatever is written on its Digest and
\* Signature lines and whatever its line ends are.
C21_SignedVerifies ==
    [][/\ \A rsa \in IdentityKeys :
             Sign(rsa) =>
                /\ getServerInfoDigest(text') = signedDigest'
                /\ fieldValue(text', "D") = signedDigest'
                /\ pk_check_signature(fieldValue(text', "G"), rsa)
                      = signedDigest'
       /\ (Recode \/ \E f \in {"D", "G"}, v \in OtherValues : Rewrite(f, v))
             => getServerInfoDigest(text') = getServerInfoDigest(text)
      ]_vars

\* A descriptor naming identity key 1 was signed with key 2.
C21_Witness ==
    /\ codecOp = "sign"
    /\ signedDigest.kind = "sha1"
    /\ fieldValue(text, "D") = signedDigest
    /\ fieldValue(text, "G") = pk_sign(signedDigest, 2)
    /\ fieldValue(text, "I").key = 1

\* C22: a ServerInfo is marked validated only if the recomputed digest
\* equals the value of its Digest line and equals the digest recovered from
\* its Signature line under its own Identity key, also when the caller
\* supplies validatedDigests.
C22_ValidatedOnlyIfVerified ==
    (codecOp = "ServerInfo" /\ isValidated = 1) =>
        /\ getServerInfoDigest(text) = fieldValue(text, "D")
        /\ getServerInfoDigest(text)
              = pk_check_signature(fieldValue(text, "G"),
                                   fieldValue(text, "I").key)

C26_NoInsertUnderLock ==
    [][/\ (poolLock = "main" /\ poolLock' = "main") =>
             /\ inserted' = inserted
             /\ \A p \in Packets : pool[p] = "none" => pool'[p] = "none"
       /\ MixGetBatch =>
             /\ poolLock = "main"
             /\ PoolHandles = syncedSinceInsert
             /\ PoolHandles # {} => batch' \subseteq syncedSinceInsert
      ]_vars

\* The processing thread is about to insert a packet while the main thread,
\* holding the lock, has synced the logs and is about to select its batch
\* from a pool that is not empty.
C26_Witness ==
    /\ poolLock = "main"
    /\ mainPc = "mix"
    /\ procPc = "insert"
    /\ PoolHandles # {}

\* C27: on a MIX event the main thread takes the pool's lock, syncs the
\* logs, runs mix(), releases the lock and only then runs the send cycles
\* of the outgoing queue and of the module manager; the lock is released
\* also when syncLogs() or mix() raises, so the main thread does not hold it
\* once the MIX handler has finished.
C27_MixOrder ==
    [][/\ MixSyncLogs => (poolLock = "main" /\ mainPc' = "mix")
       /\ (MixGetBatch \/ MixHandOff \/ MixRemove \/ MixDone) =>
             (poolLock = "main" /\ syncedSinceInsert = PoolHandles)
       /\ MixUnlock => (mainPc' = "sendOut" /\ poolLock' = "free")
       /\ SendOutgoing => (poolLock # "main" /\ mainPc' = "sendMod")
       /\ SendModules => (poolLock # "main" /\ mainPc' = "wait")
       /\ mainPc' \in {"sendOut", "sendMod", "wait", "raised"} =>
             poolLock' # "main"
      ]_vars

\* mix() raised with part of its batch handed on, and the handler was left
\* by the exception.
C27_Witness ==
    /\ mainPc = "raised"
    /\ faults > 0
    /\ \E p \in Packets : handedOut[p] > 0
    /\ PoolHandles # {}

\* The interval after which an event of the given name comes again.
IntervalOf(name) ==
    CASE name = "MIX" -> MixInterval
      [] name = "SHRED" -> ShredInterval
      [] name = "TIMEOUT" -> TransportTimeout

\* C28: the scheduler dispatches an event only when its time has come
\* (eventTime <= now), the event dispatched is the earliest of the list, and
\* the same kind of event is put back at now plus its interval, now being
\* the time of the dispatch (so that, the handler having taken d seconds,
\* it is interval - d seconds ahead afterwards): two MIX dispatches are
\* never less than MixInterval apart.
C28_DispatchWhenDue ==
    [][\A d \in {0, MaxHandlerTime} :
          SchedDispatch(d) =>
             LET e == scheduledEvents[1]
             IN /\ e[1] <= 0
                /\ \A i \in 1..Len(scheduledEvents) :
                      ~TupleLess(scheduledEvents[i], e)
                /\ \E j \in 1..Len(scheduledEvents') :
                      scheduledEvents'[j] = <<IntervalOf(e[2]) - d, e[2]>>
                /\ \A j \in 1..Len(scheduledEvents') :
                      scheduledEvents'[j][2] = e[2] =>
                         scheduledEvents'[j][1] >= IntervalOf(e[2]) - d
      ]_vars

\* A MIX event was dispatched late, its handler took its time, and the
\* next MIX event is due as the loop comes round, a TIMEOUT event overdue.
C28_Witness ==
    /\ schedPc = "top"
    /\ \E j \in 1..Len(scheduledEvents) :
          scheduledEvents[j] = <<MixInterval - MaxHandlerTime, "MIX">>
    /\ scheduledEvents[1][2] = "TIMEOUT"
    /\ scheduledEvents[1][1] < 0

\* C29: at the start of every iteration of the main loop the list of
\* scheduled events is sorted by time and holds exactly one MIX, one SHRED
\* and one TIMEOUT event.
C29_OneOfEachSorted ==
    schedPc \in {"top", "process", "check", "dispatch"} =>
        /\ Len(scheduledEvents) = 3
        /\ \A name \in {"MIX", "SHRED", "TIMEOUT"} :
              Cardinality({i \in 1..3 : scheduledEvents[i][2] = name}) = 1
        /\ \A i \in 1..2 :
              ~TupleLess(scheduledEvents[i + 1], scheduledEvents[i])

\* An iteration starts with the TIMEOUT event first and the MIX event
\* after it, both put back by earlier dispatches, the SHRED event nearer
\* than it was scheduled.
C29_Witness ==
    /\ schedPc = "top"
    /\ scheduledEvents[1][2] = "TIMEOUT"
    /\ scheduledEvents[2][2] = "MIX"
    /\ scheduledEvents[1][1] < scheduledEvents[2][1]
    /\ scheduledEvents[3][1] < ShredInterval

\* C30 (as claimed): process() is given no more time than is left until the
\* head event, so that when it returns the head event is not overdue.
C30_ProcessWithinDeadline ==
    [][(schedPc = "process" /\ schedPc' = "check") =>
          scheduledEvents'[1][1] >= 0]_vars

\* C23: the cleaning transform is idempotent: what _cleanForDigest returns,
\* for any string of CR, LF, space, tab and ordinary characters, is
\* returned unchanged when it is cleaned again.
C23_CleanIdempotent ==
    [][Clean => cleanForDigest(text') = text']_vars

\* A string was cleaned and then cleaned again, and it has two lines.
C23_Witness ==
    /\ codecOp = "cleanAgain"
    /\ text = <<Ch("a"), LF, Ch("a"), LF>>

\* The lines of a cleaned string.
LinesOf(s) == splitLines(s, <<>>)

\* C24: what _cleanForDigest returns contains no CR, has no line that
\* begins or ends with a space or a tab, and ends with exactly one LF.
C24_CleanOutput ==
    codecOp \in {"clean", "cleanAgain"} =>
        /\ \A i \in 1..Len(text) : text[i].c # "CR"
        /\ \A i \in 1..Len(LinesOf(text)) :
              LET line == LinesOf(text)[i]
              IN line # <<>> => ~isWs(line[1]) /\ ~isWs(line[Len(line)])
        /\ Len(text) >= 1 /\ text[Len(text)].c = "LF"
        /\ Len(text) >= 2 => text[Len(text) - 1].c # "LF"

\* What was put on a queue before the item stop (all of it when stop was
\* not put).
BeforeSentinel(q, stop) ==
    IF stop \in Range(q)
    THEN SubSeq(q, 1, (CHOOSE i \in 1 .. Len(q) : q[i] = stop) - 1)
    ELSE q

\* C31 (as claimed): the processing thread calls the jobs in the order of
\* their addJob calls, and once shutdown() was called the thread ends only
\* when every job put before the _Shutdown instance has been called (and
\* has returned, unless it is the one that raised), and it calls no job put
\* after it.
C31_JobsInOrderAndDrained ==
    /\ IsPrefix(ptStarted, SelectSeq(ptPut, LAMBDA j : j # ShutdownJob))
    /\ (ShutdownJob \in Range(ptPut) /\ ptPc \in {"exited", "dead"}) =>
          ptStarted = BeforeSentinel(ptPut, ShutdownJob)

\* The names of what the cleaning thread has handled.
HandledNames == [i \in 1 .. Len(ctHandled) |-> ctHandled[i].fn]

\* C32: the cleaning thread takes the names in the order they were put;
\* a name whose file exists is securely deleted and one whose file does
\* not exist gets a warning, and either way the thread goes on; the thread
\* ends only with the None put by shutdown(), when every name put before
\* it has been handled and none of their files exists; and once shutdown()
\* was called the thread does end.
C32_CleaningDrains ==
    /\ [](/\ ctPc # "dead"
          /\ IsPrefix(HandledNames, BeforeSentinel(ctPut, None))
          /\ ctPc = "exited" =>
                /\ HandledNames = BeforeSentinel(ctPut, None)
                /\ Range(HandledNames) \cap files = {})
    /\ [][Len(ctHandled') > Len(ctHandled) =>
             LET e == ctHandled'[Len(ctHandled')]
             IN /\ e.how = (IF e.fn \in files THEN "deleted" ELSE "warned")
                /\ files' = files \ {e.fn}
                /\ ctPc' = "get"]_vars
    /\ (None \in Range(ctPut)) ~> (ctPc = "exited")

\* The thread has ended after a warning for a missing file and, after
\* that, the deletion of a file that was there.
C32_Witness ==
    /\ ctPc = "exited"
    /\ Len(ctHandled) >= 2
    /\ ctHandled[1].how = "warned"
    /\ ctHandled[2].how = "deleted"
    /\ ctHandled[2].fn # ctHandled[1].fn

\* A step of MixPool.mix().
MixStep == MixGetBatch \/ MixHandOff \/ MixRemove \/ MixDone

\* C33: a step of MixPool.mix() changes the pool only by removing a handle
\* of the batch getBatch() returned (the batch is drawn from the pool and
\* only shrinks afterwards), so every other packet stays in the pool as it
\* was; and mix() on an empty pool returns at once: no batch is computed,
\* the pool stays empty and neither the outgoing queue nor the module
\* manager receives anything.
C33_MixOnlyRemovesBatch ==
    [][MixStep =>
          /\ \A p \in Packets :
                pool'[p] # pool[p] => (p \in batch /\ pool'[p] = "none")
          /\ IF MixGetBatch THEN batch' \subseteq PoolHandles
                            ELSE batch' \subseteq batch
          /\ (MixGetBatch /\ PoolHandles = {}) =>
                /\ mainPc' = "unlock"
                /\ UNCHANGED <<batch, pool, outgoing, modq, handedOut,
                               handedMod, skipped>>]_vars

\* mix() has handled its batch: one packet went to a downstream queue and
\* is gone from the pool, another, which getBatch() did not select, is
\* still there.
C33_Witness ==
    /\ mainPc = "loop"
    /\ batch = {}
    /\ \E p, q \in Packets :
          /\ pool[p] \in {"relay", "exit"}
          /\ pool[q] = "none"
          /\ handedOut[q] + handedMod[q] = 1

\* The least of the add events (Valid-Until) and the remove events
\* (Valid-Until + overlap) of the keysets on disk that are live at when.
FirstKeyEvent(disk, when) ==
    LET live == getLiveKeys(ScanKeySets(disk), when)
        events == UNION {{live[i][2], live[i][2] + keyOverlap} :
                            i \in 1 .. Len(live)}
    IN CHOOSE t \in events : \A u \in events : t <= u

\* C34: an updateKeys call that returns leaves in the cache the least of
\* the add and remove events of the KeySets live at its time argument;
\* getNextKeyRotation() returns the cached value, and no operation other
\* than updateKeys changes it, keys being created and removed in between.
C34_NextRotationCached ==
    [][/\ ((\E when \in WhenArgs : updateKeys(TRUE, TRUE, when))
              /\ keyExc' = "none") =>
             nextUpdate' = {FirstKeyEvent(keyDisk', keyOp'.now)}
       /\ (nextUpdate # {} /\ keyExc' = "none"
              /\ ~(\E when \in WhenArgs : updateKeys(TRUE, TRUE, when))) =>
             nextUpdate' = nextUpdate
       /\ (callGetNextKeyRotation /\ nextUpdate # {}) =>
             keyOp'.ret \in nextUpdate]_vars

\* getNextKeyRotation() has returned the cached value after a key that
\* was current at the last updateKeys has been removed and another key has
\* been generated.
C34_Witness ==
    /\ keyOp.op = "getNextKeyRotation"
    /\ keyExc = "none"
    /\ CurrentNames # {}
    /\ CurrentNames \cap KeyNames(keyDisk) = {}
    /\ keyDisk # {}
    /\ nextUpdate # {FirstKeyEvent(keyDisk, ktime)}

\* The key directories a step has written.
NewKeys == keyDisk' \ keyDisk

\* Where createKeys starts its first key: after the latest Valid-Until
\* there is, or now.
FirstSlot ==
    IF keyDisk # {} THEN previousMidnight(LatestValidUntil + 60)
    ELSE previousMidnight(ktime + 60)

\* C35 (as claimed): every KeySet createKeys generates is valid from a UTC
\* midnight until Valid-After + PublicKeyLifetime; the first one of a call
\* starts at previousMidnight(latest Valid-Until + 60 s), or at
\* previousMidnight(now + 60 s) on an empty keyring, and every further one
\* starts where another one of the call ends.
C35_KeySlots ==
    [][((\E num \in 1 .. MaxNum : createKeys(num)) /\ keyExc' = "none") =>
          /\ \A k \in NewKeys : k.va % Day = 0 /\ k.vu = k.va + lifetime
          /\ \E k \in NewKeys : k.va = FirstSlot
          /\ \A k \in NewKeys :
                k.va = FirstSlot \/ \E j \in NewKeys : j.vu = k.va]_vars

\* C36 (as claimed): once createKeys or removeDeadKeys has returned, the
\* names of the key directories are exactly the integers from firstKey to
\* lastKey of self.keyRange, none of them unused; and a key createKeys
\* generates is named lastKey + 1, or firstKey - 1 when firstKey is above 1
\* (1 on an empty keystore).
C36_ContiguousNames ==
    [][/\ keyExc' = "none" =>
             KeyNames(keyDisk') =
                {n \in 1 .. MaxKeys + MaxDays :
                    keyRange'[1] <= n /\ n <= keyRange'[2]}
       /\ (createKeys(1) /\ keyExc' = "none") =>
             KeyNames(keyDisk') \ KeyNames(keyDisk) =
                {IF keyRange[1] = MaxInt THEN 1
                 ELSE IF keyRange[1] > 1 THEN keyRange[1] - 1
                 ELSE keyRange[2] + 1}]_vars

\* C37: createKeys(num) leaves every key directory there was as it was and
\* adds num directories under num names that were not in use, whatever
\* createKeys and removeDeadKeys calls came before.
C37_FreshNames ==
    [][\A num \in 1 .. MaxNum :
          createKeys(num) =>
             /\ keyDisk \subseteq keyDisk'
             /\ Cardinality(KeyNames(keyDisk') \ KeyNames(keyDisk)) = num
             /\ Cardinality(keyDisk') = Cardinality(KeyNames(keyDisk'))]_vars

\* createKeys(2) has named one key below the window and one above it, the
\* window beginning above 1 after the first key was removed.
C37_Witness ==
    /\ keyOp.op = "createKeys"
    /\ keyExc = "none"
    /\ KeyNames(keyDisk) = {1, 2, 3}
    /\ KeyOf(keyDisk, 2).va < KeyOf(keyDisk, 1).va
    /\ KeyOf(keyDisk, 1).va < KeyOf(keyDisk, 3).va

\* C38 (as claimed): when createKeys() has run on an empty keyring at time
\* T, whatever the time of day, one of the KeySets it generated is valid
\* at T: its Valid-After is not later than T.
C38_FreshKeyLive ==
    [][((\E num \in 1 .. MaxNum : createKeys(num))
           /\ keyDisk = {} /\ keyExc' = "none") =>
          \E k \in keyDisk' : k.va <= ktime /\ ktime <= k.vu]_vars

\* C39 (as claimed): when updateKeys(..., when = now) has returned, the
\* time getNextKeyRotation() returns is later than now, also while a key
\* that has passed its Valid-Until is still within the overlap.
C39_NextRotationAhead ==
    [][(updateKeys(TRUE, TRUE, ktime) /\ keyExc' = "none") =>
          \A t \in nextUpdate' : t > ktime]_vars

\* C40 (as claimed): when regenerateServerDescriptor() has run on a KeySet
\* that was published, the marker file is gone and isPublished() is false,
\* and the next publishKeys() uploads the regenerated descriptor.
C40_RegeneratedIsUnpublished ==
    [][\A k \in Keysets :
          /\ (regenerateServerDescriptor(k) /\ isPublished(k)) =>
                ~publishedFile'[k] /\ ~published'[k]
          /\ ((\E answer \in [Keysets -> {"accept"}] : ksetPublishKeys(answer))
                 /\ ksetOp = [op |-> "regenerateServerDescriptor", ks |-> k]) =>
                descFile[k] \in uploaded'[k]]_vars

==============================================================================
